---------------------------- MODULE Spec2Model ----------------------------
(***************************************************************************)
(* Model of the marketplace catalogue backend (backend/app).               *)
(*                                                                         *)
(* The database is a set of tables; a table is a sequence of rows in       *)
(* insertion order and a row's primary key is its position.  DECIMAL(15,2) *)
(* prices are exact, so they are integers here.  A nullable column holds   *)
(* None when it is NULL.                                                   *)
(***************************************************************************)
EXTENDS Integers, Sequences, FiniteSets, TLC

VARIABLES
    categories,             \* table categories
    attribute_definitions,  \* table attribute_definitions
    attribute_values,       \* table attribute_values
    category_attributes,    \* table category_attributes
    products,               \* table products
    variants,               \* table product_variants
    view,                   \* the last resolved view of a product, or NoView
    response,               \* the response to the last request
    scenario,               \* how many calls of the end-to-end scenario were made
    product_attributes,     \* table product_attributes
    writers,                \* the requests in flight: what each has read so far
    carts,                  \* table carts
    cart_items,             \* table cart_items
    order_items,            \* table order_items
    listing                 \* the body of the last response when it is a list

vars == <<categories, attribute_definitions, attribute_values, category_attributes,
          products, variants, view, response, scenario, product_attributes, writers,
          carts, cart_items, order_items, listing>>

\* the tables of the storefront and the list last answered
shop == <<carts, cart_items, order_items, listing>>

-----------------------------------------------------------------------------
(* Bounds of the model *)

MaxVariants == 2      \* variants per product
MaxStock == 6         \* largest stock_quantity drawn

(* Program constants *)

DefaultLowStockThreshold == 5     \* Column(Integer, default=5)

None == 0 - 1                     \* SQL NULL / Python None
NoView == [id |-> 0]
\* Python None where a dict {"min": .., "max": ..} may stand
NoRange == [min |-> None, max |-> None]

Prices == {150, 199, 200}
NullablePrices == Prices \cup {None}
Stocks == 0 .. MaxStock
Thresholds == {0, DefaultLowStockThreshold}

-----------------------------------------------------------------------------
(* Python built-ins used by the properties *)

\* bool(x) of an Optional[Decimal]: None and Decimal(0) are falsy
Truthy(x) == x # None /\ x # 0

RECURSIVE PyMinFrom(_, _)
PyMinFrom(best, s) ==
    IF s = <<>> THEN best
    ELSE PyMinFrom(IF Head(s) < best THEN Head(s) ELSE best, Tail(s))
\* min(list) of a non-empty list
PyMin(s) == PyMinFrom(Head(s), Tail(s))

RECURSIVE PyMaxFrom(_, _)
PyMaxFrom(best, s) ==
    IF s = <<>> THEN best
    ELSE PyMaxFrom(IF Head(s) > best THEN Head(s) ELSE best, Tail(s))
\* max(list) of a non-empty list
PyMax(s) == PyMaxFrom(Head(s), Tail(s))

RECURSIVE PySum(_)
\* sum(iterable)
PySum(s) == IF s = <<>> THEN 0 ELSE Head(s) + PySum(Tail(s))

\* mutation of PyRound: int() instead of round(), the fraction is dropped
PyRound_Truncate(num, den) == num \div den

\* round(Decimal(num) / Decimal(den)) for num >= 0, den > 0: Decimal.__round__
\* without ndigits rounds to the nearest integer, ties to the even one
PyRound(num, den) ==
    LET q == num \div den
        r == num % den
    IN  IF 2 * r < den THEN q
        ELSE IF 2 * r > den THEN q + 1
        ELSE IF q % 2 = 0 THEN q ELSE q + 1

\* [f(x) for x in s]
Map(f(_), s) == [i \in 1 .. Len(s) |-> f(s[i])]

-----------------------------------------------------------------------------
(* ORM relationships *)

IsActiveVariant(v) == v.is_active

\* Product.variants
Product_variants(p) == SelectSeq(variants, LAMBDA v : v.product_id = p.id)

\* [v for v in self.variants if v.is_active]
ActiveVariants(p) == SelectSeq(Product_variants(p), IsActiveVariant)

\* ProductVariant.product
ProductVariant_product(v) == products[v.product_id]

-----------------------------------------------------------------------------
(* ProductVariant properties *)

ProductVariant_effective_price(v) ==
    IF v.price # None THEN v.price ELSE ProductVariant_product(v).price

ProductVariant_effective_compare_price(v) ==
    IF v.compare_price # None THEN v.compare_price
    ELSE ProductVariant_product(v).compare_price

\* mutation of ProductVariant.is_in_stock: allow_backorder is not read
ProductVariant_is_in_stock_OwnStock(v) ==
    IF ~ProductVariant_product(v).track_inventory THEN TRUE
    ELSE v.stock_quantity > 0

ProductVariant_is_in_stock(v) ==
    IF ~ProductVariant_product(v).track_inventory THEN TRUE
    ELSE v.stock_quantity > 0 \/ ProductVariant_product(v).allow_backorder

ProductVariant_is_low_stock(v) ==
    IF ~ProductVariant_product(v).track_inventory THEN FALSE
    ELSE v.stock_quantity <= ProductVariant_product(v).low_stock_threshold

ProductVariant_discount_percentage(v) ==
    LET compare_price == ProductVariant_effective_compare_price(v)
        current_price == ProductVariant_effective_price(v)
    IN  IF Truthy(compare_price) /\ compare_price > current_price
        THEN PyRound((compare_price - current_price) * 100, compare_price)
        ELSE 0

-----------------------------------------------------------------------------
(* Product properties *)

\* mutation of Product.is_in_stock: inactive variants count too
Product_is_in_stock_AnyVariant(p) ==
    IF ~p.track_inventory THEN TRUE
    ELSE IF Product_variants(p) # <<>>
    THEN \E i \in 1 .. Len(Product_variants(p)) :
            ProductVariant_is_in_stock(Product_variants(p)[i])
    ELSE p.stock_quantity > 0 \/ p.allow_backorder

\* mutation of Product.is_in_stock: the product's own stock decides when no
\* variant is active
Product_is_in_stock_OwnFallback(p) ==
    IF ~p.track_inventory THEN TRUE
    ELSE IF ActiveVariants(p) # <<>>
    THEN \E i \in 1 .. Len(ActiveVariants(p)) :
            ProductVariant_is_in_stock(ActiveVariants(p)[i])
    ELSE p.stock_quantity > 0 \/ p.allow_backorder

\* mutation of Product.is_in_stock: every active variant has to be in stock
Product_is_in_stock_EveryVariant(p) ==
    IF ~p.track_inventory THEN TRUE
    ELSE IF Product_variants(p) # <<>>
    THEN \A i \in 1 .. Len(ActiveVariants(p)) :
            ProductVariant_is_in_stock(ActiveVariants(p)[i])
    ELSE p.stock_quantity > 0 \/ p.allow_backorder

Product_is_in_stock(p) ==
    IF ~p.track_inventory THEN TRUE
    ELSE IF Product_variants(p) # <<>>
    THEN \E i \in 1 .. Len(ActiveVariants(p)) :
            ProductVariant_is_in_stock(ActiveVariants(p)[i])
    ELSE p.stock_quantity > 0 \/ p.allow_backorder

\* mutation of Product.is_low_stock: any() instead of all()
Product_is_low_stock_SomeVariant(p) ==
    IF ~p.track_inventory THEN FALSE
    ELSE IF Product_variants(p) # <<>>
    THEN \E i \in 1 .. Len(ActiveVariants(p)) :
            ActiveVariants(p)[i].stock_quantity
                <= ProductVariant_product(ActiveVariants(p)[i]).low_stock_threshold
    ELSE p.stock_quantity <= p.low_stock_threshold

\* mutation of Product.is_low_stock: < instead of <=
Product_is_low_stock_Below(p) ==
    IF ~p.track_inventory THEN FALSE
    ELSE IF Product_variants(p) # <<>>
    THEN \A i \in 1 .. Len(ActiveVariants(p)) :
            ActiveVariants(p)[i].stock_quantity
                < ProductVariant_product(ActiveVariants(p)[i]).low_stock_threshold
    ELSE p.stock_quantity < p.low_stock_threshold

Product_is_low_stock(p) ==
    IF ~p.track_inventory THEN FALSE
    ELSE IF Product_variants(p) # <<>>
    THEN \A i \in 1 .. Len(ActiveVariants(p)) :
            ActiveVariants(p)[i].stock_quantity
                <= ProductVariant_product(ActiveVariants(p)[i]).low_stock_threshold
    ELSE p.stock_quantity <= p.low_stock_threshold

Product_discount_percentage(p) ==
    IF Truthy(p.compare_price) /\ p.compare_price > p.price
    THEN PyRound((p.compare_price - p.price) * 100, p.compare_price)
    ELSE 0

\* mutation of Product.effective_price: inactive variants count too
Product_effective_price_AnyVariant(p) ==
    IF Product_variants(p) # <<>>
    THEN PyMin(Map(ProductVariant_effective_price, Product_variants(p)))
    ELSE p.price

Product_effective_price(p) ==
    IF Product_variants(p) # <<>>
    THEN LET variant_prices == Map(ProductVariant_effective_price, ActiveVariants(p))
         IN  IF variant_prices # <<>> THEN PyMin(variant_prices) ELSE p.price
    ELSE p.price

\* mutation of Product.price_range: inactive variants count too
Product_price_range_AnyVariant(p) ==
    IF Product_variants(p) = <<>> THEN NoRange
    ELSE LET prices == Map(ProductVariant_effective_price, Product_variants(p))
             min_price == PyMin(prices)
             max_price == PyMax(prices)
         IN  IF min_price = max_price THEN NoRange
             ELSE [min |-> min_price, max |-> max_price]

Product_price_range(p) ==
    IF Product_variants(p) = <<>> THEN NoRange
    ELSE IF ActiveVariants(p) = <<>> THEN NoRange
    ELSE LET prices == Map(ProductVariant_effective_price, ActiveVariants(p))
             min_price == PyMin(prices)
             max_price == PyMax(prices)
         IN  IF min_price = max_price THEN NoRange
             ELSE [min |-> min_price, max |-> max_price]

VariantStock(v) == v.stock_quantity

\* mutation of Product.total_stock: inactive variants count too
Product_total_stock_AnyVariant(p) ==
    IF Product_variants(p) # <<>>
    THEN PySum(Map(VariantStock, Product_variants(p)))
    ELSE p.stock_quantity

Product_total_stock(p) ==
    IF Product_variants(p) # <<>>
    THEN PySum(Map(VariantStock, ActiveVariants(p)))
    ELSE p.stock_quantity

-----------------------------------------------------------------------------
(* The resolved view of a product: every derived property of the row and   *)
(* of each of its variants, as the response schemas read them              *)
(* (total_stock is in no response schema; it is resolved with the others). *)

VariantView(v) ==
    [ effective_price         |-> ProductVariant_effective_price(v),
      effective_compare_price |-> ProductVariant_effective_compare_price(v),
      is_in_stock             |-> ProductVariant_is_in_stock(v),
      is_low_stock            |-> ProductVariant_is_low_stock(v),
      discount_percentage     |-> ProductVariant_discount_percentage(v) ]

ProductView(p) ==
    [ id                  |-> p.id,
      is_in_stock         |-> Product_is_in_stock(p),
      is_low_stock        |-> Product_is_low_stock(p),
      discount_percentage |-> Product_discount_percentage(p),
      effective_price     |-> Product_effective_price(p),
      price_range         |-> Product_price_range(p),
      total_stock         |-> Product_total_stock(p),
      variants            |-> Map(VariantView, Product_variants(p)) ]

-----------------------------------------------------------------------------
(* Requests and responses *)

Resp(status, detail) == [status |-> status, detail |-> detail]
NoResponse == Resp(0, "")
\* no request is in flight
NoWriters == <<>>
\* the last response was no list
NoListing == [in_stock |-> "no list", products |-> <<>>, total |-> 0]
\* no cart, no cart item, no order item: the storefront tables as create_all leaves them
EmptyShop ==
    /\ carts = <<>>
    /\ cart_items = <<>>
    /\ order_items = <<>>
    /\ listing = NoListing

\* the authenticated callers; user 2 owns the active store 1
Admin == [id |-> 1, role |-> "admin"]
Seller == [id |-> 2, role |-> "seller"]
Customer == [id |-> 3, role |-> "customer"]
Users == {Admin, Seller, Customer}
Stores == << [id |-> 1, owner_id |-> 2, status |-> "active"] >>

\* get_admin_user / get_seller_user let the request through
IsAdminUser(current_user) == current_user.role = "admin"
IsSellerUser(current_user) == current_user.role \in {"seller", "admin"}

\* Model(explicit..., **schema.dict()): Python refuses a keyword given twice, and
\* the declarative constructor refuses a keyword that is no attribute of the model
PyConstruct(attributes, explicit, fields) ==
    IF explicit \cap fields # {} THEN "TypeError"
    ELSE IF ~((explicit \cup fields) \subseteq attributes) THEN "TypeError"
    ELSE "ok"

\* the fields of the request schemas (.dict() yields every field)
CategoryCreate_fields ==
    {"name", "parent_id", "description", "image_url", "icon_url", "slug",
     "sort_order", "is_active", "meta_title", "meta_description"}
AttributeDefinitionCreate_fields ==
    {"code", "name", "type", "unit", "is_required", "is_filter", "sort_order"}
AttributeValueCreate_fields ==
    {"value", "display_name", "meta_data", "attribute_id", "sort_order", "is_active"}
CategoryAttributeCreate_fields ==
    {"category_id", "attribute_id", "is_required", "is_variant", "sort_order"}
ProductCreate_fields ==
    {"store_id", "category_id", "brand_id", "sku", "name", "slug", "description",
     "short_description", "price", "compare_price", "cost_price", "weight",
     "dimensions", "status", "visibility", "track_inventory", "stock_quantity",
     "low_stock_threshold", "allow_backorder", "meta_title", "meta_description",
     "attributes", "tags"}
ProductVariantCreate_fields ==
    {"name", "sku", "price", "compare_price", "stock_quantity", "weight",
     "dimensions", "attributes", "product_id", "sort_order", "is_active"}

\* the columns and relationships of the ORM models
Category_attributes ==
    {"id", "parent_id", "name", "slug", "description", "image_url", "icon_url",
     "sort_order", "is_active", "meta_title", "meta_description", "created_at",
     "updated_at", "parent", "children", "products"}
AttributeDefinition_attributes ==
    {"id", "code", "name", "type", "unit", "is_required", "is_filter", "sort_order",
     "created_at", "updated_at", "category_attributes", "attribute_values"}
AttributeValue_attributes ==
    {"id", "attribute_id", "value", "display_name", "meta_data", "sort_order",
     "is_active", "attribute", "product_attributes"}
CategoryAttribute_attributes ==
    {"id", "category_id", "attribute_id", "is_required", "is_variant", "sort_order",
     "category", "attribute"}
Product_attributes ==
    {"id", "store_id", "category_id", "brand_id", "sku", "name", "slug",
     "description", "short_description", "price", "compare_price", "cost_price",
     "weight", "dimensions", "status", "visibility", "track_inventory",
     "stock_quantity", "low_stock_threshold", "allow_backorder", "meta_title",
     "meta_description", "attributes", "tags", "created_at", "updated_at",
     "published_at", "store", "category", "brand", "variants", "images",
     "cart_items", "wishlist_items", "order_items", "reviews", "views"}
ProductVariant_attributes ==
    {"id", "product_id", "sku", "name", "price", "compare_price", "stock_quantity",
     "weight", "attributes", "image_id", "sort_order", "is_active", "created_at",
     "updated_at", "product", "cart_items", "wishlist_items", "order_items", "images"}

\* db.query(Model).filter(pred).first() is not None
Exists(table, pred(_)) == \E i \in 1 .. Len(table) : pred(table[i])

-----------------------------------------------------------------------------
(* The end-to-end scenario of the catalogue: the calls, in order *)

Call(op, current_user, path, body) ==
    [op |-> op, user |-> current_user, path |-> path, body |-> body]

ShirtsIn == [slug |-> "shirts", parent_id |-> None]
ColorIn == [code |-> "color", type |-> "select"]
RedIn == [attribute_id |-> 1, value |-> "red"]
BlueIn == [attribute_id |-> 1, value |-> "blue"]
ColorOfShirtsIn ==
    [category_id |-> 1, attribute_id |-> 1, is_required |-> FALSE, is_variant |-> TRUE]
ProductIn ==
    [ store_id |-> 1, category_id |-> 1, sku |-> "P", price |-> 1000,
      compare_price |-> None, status |-> "active", track_inventory |-> TRUE,
      stock_quantity |-> 0, low_stock_threshold |-> DefaultLowStockThreshold,
      allow_backorder |-> FALSE ]
RedVariantIn ==
    [ product_id |-> 1, sku |-> "P-red", price |-> None, compare_price |-> None,
      stock_quantity |-> 0, is_active |-> TRUE ]
BlueVariantIn ==
    [ product_id |-> 1, sku |-> "P-blue", price |-> 1200, compare_price |-> None,
      stock_quantity |-> 3, is_active |-> TRUE ]

ScenarioSteps ==
    << Call("create_category", Admin, 0, ShirtsIn),
       Call("create_attribute_definition", Admin, 0, ColorIn),
       Call("create_attribute_value", Admin, 0, RedIn),
       Call("create_attribute_value", Admin, 0, BlueIn),
       Call("assign_attribute_to_category", Admin, 1, ColorOfShirtsIn),
       Call("create_product", Seller, 0, ProductIn),
       Call("create_product_variant", Seller, 1, RedVariantIn),
       Call("create_product_variant", Seller, 1, BlueVariantIn),
       Call("get_product", Customer, 1, [none |-> TRUE]) >>

ScenarioDone == scenario = Len(ScenarioSteps)

\* the scenario moves on when its next call is made
Advance(call) ==
    scenario' = IF scenario < Len(ScenarioSteps)
                   /\ ScenarioSteps[scenario + 1].op = call.op
                   /\ ScenarioSteps[scenario + 1] = call
                THEN scenario + 1 ELSE scenario

-----------------------------------------------------------------------------
(* Rows *)

ProductRow(id, price, compare_price, track, stock, threshold, backorder) ==
    [ id |-> id, store_id |-> 1, category_id |-> None, sku |-> "P",
      status |-> "active", price |-> price, compare_price |-> compare_price,
      track_inventory |-> track, stock_quantity |-> stock,
      low_stock_threshold |-> threshold, allow_backorder |-> backorder ]

VariantRow(product_id, price, compare_price, stock, active) ==
    [ product_id |-> product_id, sku |-> "V", price |-> price,
      compare_price |-> compare_price, stock_quantity |-> stock,
      is_active |-> active ]

-----------------------------------------------------------------------------
(* api/v1/categories.py *)

create_category(current_user, category_in) ==
    LET resp ==
            IF ~IsAdminUser(current_user) THEN Resp(403, "Not enough permissions")
            ELSE IF Exists(categories, LAMBDA c : c.slug = category_in.slug)
            THEN Resp(400, "Category with this slug already exists")
            ELSE IF Truthy(category_in.parent_id)
                    /\ ~(category_in.parent_id \in 1 .. Len(categories))
            THEN Resp(400, "Parent category not found")
            ELSE IF PyConstruct(Category_attributes, {}, CategoryCreate_fields) # "ok"
            THEN Resp(500, "TypeError")
            ELSE Resp(201, "created")
    IN  /\ response' = resp
        /\ categories' = IF resp.status = 201
                         THEN Append(categories, category_in) ELSE categories
        /\ Advance(Call("create_category", current_user, 0, category_in))
        /\ UNCHANGED <<attribute_definitions, attribute_values, category_attributes,
                       products, variants, view>>
        /\ UNCHANGED <<product_attributes, writers, shop>>

-----------------------------------------------------------------------------
(* api/v1/attributes.py *)

\* the row is added before the code is looked up
create_attribute_definition_WriteFirst(current_user, attribute_in) ==
    LET resp ==
            IF ~IsAdminUser(current_user) THEN Resp(403, "Not enough permissions")
            ELSE IF Exists(attribute_definitions, LAMBDA a : a.code = attribute_in.code)
            THEN Resp(400, "Attribute with this code already exists")
            ELSE Resp(200, "created")
    IN  /\ response' = resp
        /\ attribute_definitions' =
              IF resp.status # 403
              THEN Append(attribute_definitions, attribute_in)
              ELSE attribute_definitions
        /\ Advance(Call("create_attribute_definition", current_user, 0, attribute_in))
        /\ UNCHANGED <<categories, attribute_values, category_attributes,
                       products, variants, view>>
        /\ UNCHANGED <<product_attributes, writers, shop>>

create_attribute_definition(current_user, attribute_in) ==
    LET resp ==
            IF ~IsAdminUser(current_user) THEN Resp(403, "Not enough permissions")
            ELSE IF Exists(attribute_definitions, LAMBDA a : a.code = attribute_in.code)
            THEN Resp(400, "Attribute with this code already exists")
            ELSE IF PyConstruct(AttributeDefinition_attributes, {},
                                AttributeDefinitionCreate_fields) # "ok"
            THEN Resp(500, "TypeError")
            ELSE Resp(200, "created")
    IN  /\ response' = resp
        /\ attribute_definitions' =
              IF resp.status = 200
              THEN Append(attribute_definitions, attribute_in)
              ELSE attribute_definitions
        /\ Advance(Call("create_attribute_definition", current_user, 0, attribute_in))
        /\ UNCHANGED <<categories, attribute_values, category_attributes,
                       products, variants, view>>
        /\ UNCHANGED <<product_attributes, writers, shop>>

\* the value is added without looking for the pair (attribute_id, value)
create_attribute_value_NoLookup(current_user, value_in) ==
    LET resp ==
            IF ~IsAdminUser(current_user) THEN Resp(403, "Not enough permissions")
            ELSE IF ~(value_in.attribute_id \in 1 .. Len(attribute_definitions))
            THEN Resp(404, "Attribute definition not found")
            ELSE Resp(200, "created")
    IN  /\ response' = resp
        /\ attribute_values' =
              IF resp.status = 200
              THEN Append(attribute_values, value_in) ELSE attribute_values
        /\ Advance(Call("create_attribute_value", current_user, 0, value_in))
        /\ UNCHANGED <<categories, attribute_definitions, category_attributes,
                       products, variants, view>>
        /\ UNCHANGED <<product_attributes, writers, shop>>

create_attribute_value(current_user, value_in) ==
    LET resp ==
            IF ~IsAdminUser(current_user) THEN Resp(403, "Not enough permissions")
            ELSE IF ~(value_in.attribute_id \in 1 .. Len(attribute_definitions))
            THEN Resp(404, "Attribute definition not found")
            ELSE IF Exists(attribute_values,
                           LAMBDA v : /\ v.attribute_id = value_in.attribute_id
                                      /\ v.value = value_in.value)
            THEN Resp(400, "Value already exists for this attribute")
            ELSE IF PyConstruct(AttributeValue_attributes, {},
                                AttributeValueCreate_fields) # "ok"
            THEN Resp(500, "TypeError")
            ELSE Resp(200, "created")
    IN  /\ response' = resp
        /\ attribute_values' =
              IF resp.status = 200
              THEN Append(attribute_values, value_in) ELSE attribute_values
        /\ Advance(Call("create_attribute_value", current_user, 0, value_in))
        /\ UNCHANGED <<categories, attribute_definitions, category_attributes,
                       products, variants, view>>
        /\ UNCHANGED <<product_attributes, writers, shop>>

assign_attribute_to_category(current_user, category_id, attribute_in) ==
    LET resp ==
            IF ~IsAdminUser(current_user) THEN Resp(403, "Not enough permissions")
            ELSE IF Exists(category_attributes,
                           LAMBDA ca : /\ ca.category_id = category_id
                                       /\ ca.attribute_id = attribute_in.attribute_id)
            THEN Resp(400, "Attribute already assigned to this category")
            ELSE IF PyConstruct(CategoryAttribute_attributes, {"category_id"},
                                CategoryAttributeCreate_fields) # "ok"
            THEN Resp(500, "TypeError")
            ELSE Resp(200, "created")
    IN  /\ response' = resp
        /\ category_attributes' =
              IF resp.status = 200
              THEN Append(category_attributes,
                          [attribute_in EXCEPT !.category_id = category_id])
              ELSE category_attributes
        /\ Advance(Call("assign_attribute_to_category", current_user, category_id,
                        attribute_in))
        /\ UNCHANGED <<categories, attribute_definitions, attribute_values,
                       products, variants, view>>
        /\ UNCHANGED <<product_attributes, writers, shop>>

-----------------------------------------------------------------------------
(* api/v1/products.py *)

\* the active store of the user, if any
HasActiveStore(current_user) ==
    Exists(Stores, LAMBDA st : st.owner_id = current_user.id /\ st.status = "active")
OwnsStore(current_user, store_id) ==
    Exists(Stores, LAMBDA st : st.id = store_id /\ st.owner_id = current_user.id)
ActiveStoreOf(current_user) ==
    CHOOSE i \in 1 .. Len(Stores) :
        Stores[i].owner_id = current_user.id /\ Stores[i].status = "active"

get_product(current_user, product_id) ==
    LET found == /\ product_id \in 1 .. Len(products)
                 /\ products[product_id].status = "active"
    IN  /\ response' = IF found THEN Resp(200, "ok")
                       ELSE Resp(404, "Product not found")
        /\ view' = IF found THEN ProductView(products[product_id]) ELSE NoView
        /\ Advance(Call("get_product", current_user, product_id, [none |-> TRUE]))
        /\ UNCHANGED <<categories, attribute_definitions, attribute_values,
                       category_attributes, products, variants>>
        /\ UNCHANGED <<product_attributes, writers, shop>>

create_product(current_user, product_in) ==
    LET resp ==
            IF ~IsSellerUser(current_user) THEN Resp(403, "Seller account required")
            ELSE IF ~HasActiveStore(current_user)
            THEN Resp(400, "You need an active store to create products")
            ELSE IF Exists(products, LAMBDA q : q.sku = product_in.sku)
            THEN Resp(400, "Product with this SKU already exists")
            ELSE IF Truthy(product_in.category_id)
                    /\ ~(product_in.category_id \in 1 .. Len(categories))
            THEN Resp(400, "Category not found")
            ELSE IF PyConstruct(Product_attributes, {"store_id"},
                                ProductCreate_fields) # "ok"
            THEN Resp(500, "TypeError")
            ELSE Resp(201, "created")
    IN  /\ response' = resp
        /\ products' =
              IF resp.status = 201
              THEN Append(products,
                          [product_in EXCEPT !.store_id = ActiveStoreOf(current_user)]
                              @@ [id |-> Len(products) + 1])
              ELSE products
        /\ Advance(Call("create_product", current_user, 0, product_in))
        /\ UNCHANGED <<categories, attribute_definitions, attribute_values,
                       category_attributes, variants, view>>
        /\ UNCHANGED <<product_attributes, writers, shop>>

create_product_variant(current_user, product_id, variant_in) ==
    LET resp ==
            IF ~IsSellerUser(current_user) THEN Resp(403, "Seller account required")
            ELSE IF ~(product_id \in 1 .. Len(products))
            THEN Resp(404, "Product not found")
            ELSE IF current_user.role # "admin"
                    /\ ~OwnsStore(current_user, products[product_id].store_id)
            THEN Resp(403, "Not enough permissions")
            ELSE IF Exists(variants, LAMBDA v : v.sku = variant_in.sku)
            THEN Resp(400, "Variant with this SKU already exists")
            ELSE IF PyConstruct(ProductVariant_attributes, {"product_id"},
                                ProductVariantCreate_fields) # "ok"
            THEN Resp(500, "TypeError")
            ELSE Resp(201, "created")
    IN  /\ response' = resp
        /\ variants' =
              IF resp.status = 201
              THEN Append(variants, [variant_in EXCEPT !.product_id = product_id])
              ELSE variants
        /\ Advance(Call("create_product_variant", current_user, product_id, variant_in))
        /\ UNCHANGED <<categories, attribute_definitions, attribute_values,
                       category_attributes, products, view>>
        /\ UNCHANGED <<product_attributes, writers, shop>>

-----------------------------------------------------------------------------
(* The catalogue behind its API, from the empty database *)

Slugs == {"shirts", "shoes"}
Codes == {"color", "material"}
Types == {"select", "text"}
Values == {"red", "blue"}

CategoryInputs ==
    { [slug |-> sl, parent_id |-> par] : sl \in Slugs, par \in {None, 1} }
AttributeInputs == { [code |-> c, type |-> t] : c \in Codes, t \in Types }
ValueInputs == { [attribute_id |-> 1, value |-> v] : v \in Values }
BindingInputs ==
    { [category_id |-> c, attribute_id |-> a, is_required |-> FALSE, is_variant |-> v] :
        c \in {1}, a \in 1 .. 2, v \in BOOLEAN }
ProductInputs == { ProductIn }
VariantInputs == { RedVariantIn, BlueVariantIn }

Init ==
    /\ categories = <<>>
    /\ attribute_definitions = <<>>
    /\ attribute_values = <<>>
    /\ category_attributes = <<>>
    /\ products = <<>>
    /\ variants = <<>>
    /\ view = NoView
    /\ response = NoResponse
    /\ scenario = 0
    /\ product_attributes = <<>>
    /\ writers = NoWriters
    /\ EmptyShop

Next ==
    \E current_user \in Users :
        \/ \E category_in \in CategoryInputs :
              create_category(current_user, category_in)
        \/ \E attribute_in \in AttributeInputs :
              create_attribute_definition(current_user, attribute_in)
        \/ \E value_in \in ValueInputs :
              create_attribute_value(current_user, value_in)
        \/ \E attribute_in \in BindingInputs :
              assign_attribute_to_category(current_user, attribute_in.category_id,
                                           attribute_in)
        \/ \E product_in \in ProductInputs :
              create_product(current_user, product_in)
        \/ \E variant_in \in VariantInputs :
              create_product_variant(current_user, variant_in.product_id, variant_in)
        \/ \E product_id \in 1 .. 2 :
              get_product(current_user, product_id)

Spec == Init /\ [][Next]_vars

-----------------------------------------------------------------------------
(* The Resolver alone, applied to rows drawn from bounded sets *)

\* all sequences over S of length at most n
SeqUpTo(S, n) == UNION { [1 .. k -> S] : k \in 0 .. n }

\* products and variants that differ in their prices; stock columns at their defaults
PricedProducts ==
    { ProductRow(1, p, c, TRUE, 0, DefaultLowStockThreshold, FALSE) :
        p \in Prices, c \in NullablePrices }
PricedVariants ==
    { VariantRow(1, p, c, 0, a) :
        p \in NullablePrices, c \in {None, 150, 200}, a \in BOOLEAN }

\* products and variants that differ in their stock; one price, no compare price
StockedProducts ==
    { ProductRow(1, 150, None, t, s, th, b) :
        t \in BOOLEAN, s \in Stocks, th \in Thresholds, b \in BOOLEAN }
StockedVariants ==
    { VariantRow(1, None, None, s, a) : s \in Stocks, a \in BOOLEAN }

\* the rows of the end-to-end scenario, constructed directly
ScenarioProducts ==
    << ProductRow(1, 1000, None, TRUE, 0, DefaultLowStockThreshold, FALSE) >>
ScenarioVariants ==
    << VariantRow(1, None, None, 0, TRUE), VariantRow(1, 1200, None, 3, TRUE) >>

InitResolver ==
    /\ categories = <<>>
    /\ attribute_definitions = <<>>
    /\ attribute_values = <<>>
    /\ category_attributes = <<>>
    /\ view = NoView
    /\ response = NoResponse
    /\ scenario = 0
    /\ product_attributes = <<>>
    /\ writers = NoWriters
    /\ EmptyShop
    /\ \/ /\ products \in { <<p>> : p \in PricedProducts }
          /\ variants \in SeqUpTo(PricedVariants, MaxVariants)
       \/ /\ products \in { <<p>> : p \in StockedProducts }
          /\ variants \in SeqUpTo(StockedVariants, MaxVariants)
       \/ /\ products = ScenarioProducts
          /\ variants = ScenarioVariants

\* each product is resolved once
NextResolver ==
    \E product_id \in 1 .. Len(products) :
        view = NoView /\ get_product(Customer, product_id)

SpecResolver == InitResolver /\ [][NextResolver]_vars

-----------------------------------------------------------------------------
(* init_db.py: the seeded catalogue.  The categories, values and variants    *)
(* that take no part in the attribute graph of the seeded product are left   *)
(* out: one colour and two sizes stand for the selected colours and sizes.   *)

SeedCategories ==
    << [slug |-> "electronics", parent_id |-> None],
       [slug |-> "clothing", parent_id |-> None],
       [slug |-> "mens-clothing", parent_id |-> 2],
       [slug |-> "womens-clothing", parent_id |-> 2] >>
Clothing == 2
MensClothing == 3

SeedAttributes ==
    << [code |-> "clothing_size", type |-> "select"],
       [code |-> "color", type |-> "color"],
       [code |-> "material", type |-> "select"],
       [code |-> "gender", type |-> "select"] >>
size_attr == 1
color_attr == 2
material_attr == 3
gender_attr == 4

SeedValues ==
    << [attribute_id |-> size_attr, value |-> "s"],
       [attribute_id |-> size_attr, value |-> "xxl"],
       [attribute_id |-> color_attr, value |-> "black"],
       [attribute_id |-> color_attr, value |-> "red"],
       [attribute_id |-> material_attr, value |-> "cotton_poly"],
       [attribute_id |-> gender_attr, value |-> "male"] >>

Binding(category_id, attribute_id, required, variant) ==
    [ category_id |-> category_id, attribute_id |-> attribute_id,
      is_required |-> required, is_variant |-> variant ]

\* assign_attributes_to_categories: four bindings for "clothing", and size and
\* colour only for each of its two subcategories
SeedBindings ==
    << Binding(Clothing, size_attr, TRUE, TRUE),
       Binding(Clothing, color_attr, TRUE, TRUE),
       Binding(Clothing, material_attr, FALSE, FALSE),
       Binding(Clothing, gender_attr, FALSE, FALSE),
       Binding(3, size_attr, TRUE, TRUE),
       Binding(3, color_attr, TRUE, TRUE),
       Binding(4, size_attr, TRUE, TRUE),
       Binding(4, color_attr, TRUE, TRUE) >>

\* create_test_products: the T-shirt, in "mens-clothing"
tshirt ==
    [ ProductRow(1, 2990, 3990, TRUE, 0, DefaultLowStockThreshold, FALSE)
        EXCEPT !.category_id = MensClothing, !.sku = "NIKE-TSHIRT-001" ]

\* stock_quantity = random.randint(0, 20): the two ends stand for the range
SeedStocks == {0, 20}

SeedVariant(sku, price, stock) ==
    [ VariantRow(1, price, None, stock, TRUE) EXCEPT !.sku = sku ]

\* the NULL of the text column custom_value
NoText == ""

\* a row as init_db.py writes it: custom_value is not set
ProductAttributeRow(product_id, variant_id, attribute_id, attribute_value_id) ==
    [ product_id |-> product_id, variant_id |-> variant_id,
      attribute_id |-> attribute_id, attribute_value_id |-> attribute_value_id,
      custom_value |-> NoText ]

\* the general rows first (material, gender), then colour and size of each variant
SeedProductAttributes ==
    << ProductAttributeRow(1, None, material_attr, 5),
       ProductAttributeRow(1, None, gender_attr, 6),
       ProductAttributeRow(1, 1, color_attr, 3),
       ProductAttributeRow(1, 1, size_attr, 1),
       ProductAttributeRow(1, 2, color_attr, 3),
       ProductAttributeRow(1, 2, size_attr, 2) >>

seed_database ==
    /\ categories = SeedCategories
    /\ attribute_definitions = SeedAttributes
    /\ attribute_values = SeedValues
    /\ category_attributes = SeedBindings
    /\ products = << tshirt >>
    /\ \E s1 \in SeedStocks, s2 \in SeedStocks :
          variants = << SeedVariant("NIKE-TSHIRT-001-BLACK-S", 2990, s1),
                        SeedVariant("NIKE-TSHIRT-001-BLACK-XXL", 3190, s2) >>
    /\ product_attributes = SeedProductAttributes

-----------------------------------------------------------------------------
(* api/v1/products.py: update_product *)

\* a foreign key names a row of the table it refers to, or is NULL
ForeignKey(table, id) == id = None \/ id \in 1 .. Len(table)

\* update_data = product_in.dict(exclude_unset=True); setattr for each field.
\* product_in is the record of the fields the request sets.
update_product(current_user, product_id, product_in) ==
    LET resp ==
            IF ~IsSellerUser(current_user) THEN Resp(403, "Seller account required")
            ELSE IF ~(product_id \in 1 .. Len(products))
            THEN Resp(404, "Product not found")
            ELSE IF current_user.role # "admin"
                    /\ ~OwnsStore(current_user, products[product_id].store_id)
            THEN Resp(403, "Not enough permissions")
            ELSE IF "category_id" \in DOMAIN product_in
                    /\ ~ForeignKey(categories, product_in.category_id)
            THEN Resp(500, "IntegrityError")
            ELSE Resp(200, "updated")
    IN  /\ response' = resp
        /\ products' =
              IF resp.status = 200
              THEN [products EXCEPT ![product_id] = product_in @@ @]
              ELSE products
        /\ UNCHANGED <<categories, attribute_definitions, attribute_values,
                       category_attributes, variants, view, scenario>>
        /\ UNCHANGED <<product_attributes, writers, shop>>

-----------------------------------------------------------------------------
(* models/attribute.py: ProductAttribute, written as init_db.py writes it *)

MaxProductAttributes == 7     \* rows of product_attributes the model lets in

\* UniqueConstraint('product_id', 'variant_id', 'attribute_id'): the database
\* (PostgreSQL) holds two NULLs to be distinct, so a row whose variant_id is
\* NULL never collides
unique_product_attribute(row) ==
    ~\E i \in 1 .. Len(product_attributes) :
        /\ product_attributes[i].product_id = row.product_id
        /\ product_attributes[i].attribute_id = row.attribute_id
        /\ row.variant_id # None
        /\ product_attributes[i].variant_id = row.variant_id

\* writing a variant's attribute also writes the variant back, stock at its default
add_ProductAttribute_ResetsStock(product_id, variant_id, attribute_id, attribute_value_id, custom_value) ==
    LET row == [ ProductAttributeRow(product_id, variant_id, attribute_id,
                                     attribute_value_id)
                   EXCEPT !.custom_value = custom_value ]
        ok == /\ product_id \in 1 .. Len(products)
              /\ ForeignKey(variants, variant_id)
              /\ attribute_id \in 1 .. Len(attribute_definitions)
              /\ ForeignKey(attribute_values, attribute_value_id)
              /\ unique_product_attribute(row)
    IN  /\ Len(product_attributes) < MaxProductAttributes
        /\ response' = IF ok THEN Resp(200, "created") ELSE Resp(500, "IntegrityError")
        /\ product_attributes' =
              IF ok THEN Append(product_attributes, row) ELSE product_attributes
        /\ variants' =
              IF ok /\ variant_id # None
              THEN [variants EXCEPT ![variant_id].stock_quantity = 0]
              ELSE variants
        /\ UNCHANGED <<categories, attribute_definitions, attribute_values,
                       category_attributes, products, view, scenario, writers, shop>>

\* db.add(ProductAttribute(product_id=..., variant_id=..., attribute_id=...,
\* attribute_value_id=..., custom_value=...)); db.commit(): the table has the
\* foreign keys and unique_product_attribute, and no other constraint
add_ProductAttribute(product_id, variant_id, attribute_id, attribute_value_id, custom_value) ==
    LET row == [ ProductAttributeRow(product_id, variant_id, attribute_id,
                                     attribute_value_id)
                   EXCEPT !.custom_value = custom_value ]
        resp ==
            IF ~(product_id \in 1 .. Len(products))
               \/ ~ForeignKey(variants, variant_id)
               \/ ~(attribute_id \in 1 .. Len(attribute_definitions))
               \/ ~ForeignKey(attribute_values, attribute_value_id)
            THEN Resp(500, "IntegrityError")
            ELSE IF ~unique_product_attribute(row)
            THEN Resp(500, "IntegrityError")
            ELSE Resp(200, "created")
    IN  /\ Len(product_attributes) < MaxProductAttributes
        /\ response' = resp
        /\ product_attributes' =
              IF resp.status = 200
              THEN Append(product_attributes, row) ELSE product_attributes
        /\ UNCHANGED <<categories, attribute_definitions, attribute_values,
                       category_attributes, products, variants, view, scenario,
                       writers, shop>>

-----------------------------------------------------------------------------
(* The seeded catalogue behind its API and its attribute writes *)

SeededAttributeInputs ==
    { [code |-> c, type |-> "text"] : c \in {"color", "fit"} }
SeededValueInputs ==
    { [attribute_id |-> a, value |-> v] :
        a \in {color_attr, 9}, v \in {"black", "teal"} }
SeededBindingInputs ==
    { Binding(c, a, FALSE, FALSE) :
        c \in {1, MensClothing, 9}, a \in {color_attr, 9} }
ProductUpdateInputs ==
    { [category_id |-> c] : c \in {1, Clothing, 9} }

\* what is assigned to the seeded product: to the product or to its first
\* variant, colour or material, the value "red"
AssignedVariants == {None, 1}
AssignedAttributes == {color_attr, material_attr}
AssignedValues == {4}

\* the callers of the registry and binder endpoints: one admin, one who is not
RegistryCallers == {Admin, Customer}

InitSeeded ==
    /\ seed_database
    /\ view = NoView
    /\ response = NoResponse
    /\ scenario = 0
    /\ writers = NoWriters
    /\ EmptyShop

NextSeeded ==
    \/ \E current_user \in RegistryCallers :
          \/ \E attribute_in \in SeededAttributeInputs :
                create_attribute_definition(current_user, attribute_in)
          \/ \E value_in \in SeededValueInputs :
                create_attribute_value(current_user, value_in)
          \/ \E attribute_in \in SeededBindingInputs :
                assign_attribute_to_category(current_user, attribute_in.category_id,
                                             attribute_in)
    \/ \E current_user \in Users, product_in \in ProductUpdateInputs :
          update_product(current_user, 1, product_in)
    \/ \E variant_id \in AssignedVariants, attribute_id \in AssignedAttributes,
          attribute_value_id \in AssignedValues :
          add_ProductAttribute(1, variant_id, attribute_id, attribute_value_id, NoText)

SpecSeeded == InitSeeded /\ [][NextSeeded]_vars

-----------------------------------------------------------------------------
(* The seeded catalogue with a text attribute added to the registry, and     *)
(* the ProductAttribute write with each of its two value columns set or not  *)

\* AttributeType members whose values are rows of attribute_values
EnumerableTypes == {"select", "multiselect", "color", "size"}

fit_attr == 5
FitIn == [code |-> "fit", type |-> "text"]

AssignedTo == {color_attr, fit_attr}
AssignedValueIds == {None, 4}
AssignedTexts == {NoText, "slim"}

InitAssign == InitSeeded

NextAssign ==
    \/ create_attribute_definition(Admin, FitIn)
    \/ \E variant_id \in AssignedVariants, attribute_id \in AssignedTo,
          attribute_value_id \in AssignedValueIds, custom_value \in AssignedTexts :
          add_ProductAttribute(1, variant_id, attribute_id, attribute_value_id,
                               custom_value)

SpecAssign == InitAssign /\ [][NextAssign]_vars

-----------------------------------------------------------------------------
(* api/v1/attributes.py: get_attribute_values, over values that are created  *)
(* with their sort_order and is_active columns                               *)

\* the rows of the query: the values of the attribute that are active
ActiveValues(attribute_id) ==
    { i \in 1 .. Len(attribute_values) :
        /\ attribute_values[i].attribute_id = attribute_id
        /\ attribute_values[i].is_active }

\* ORDER BY sort_order and nothing else: the database may return rows of equal
\* sort_order in any order, so every arrangement of the rows in which
\* sort_order does not decrease is a result
OrderedBySortOrder(ids) ==
    { s \in [1 .. Cardinality(ids) -> ids] :
        /\ \A i, j \in DOMAIN s : i # j => s[i] # s[j]
        /\ \A i, j \in DOMAIN s :
              i < j => attribute_values[s[i]].sort_order
                         <= attribute_values[s[j]].sort_order }

get_attribute_values(attribute_id) ==
    /\ response' = Resp(200, "ok")
    /\ listing' \in { [attribute_id |-> attribute_id, values |-> s] :
                        s \in OrderedBySortOrder(ActiveValues(attribute_id)) }
    /\ UNCHANGED <<categories, attribute_definitions, attribute_values,
                   category_attributes, products, variants, view, scenario,
                   product_attributes, writers, carts, cart_items, order_items>>

ListedColor == [code |-> "color", type |-> "color"]
ListedValueInputs ==
    { [attribute_id |-> 1, value |-> v, sort_order |-> o, is_active |-> a] :
        v \in {"black", "red", "teal"}, o \in {0, 1}, a \in BOOLEAN }

InitValues == Init

NextValues ==
    \/ create_attribute_definition(Admin, ListedColor)
    \/ \E value_in \in ListedValueInputs : create_attribute_value(Admin, value_in)
    \/ \E attribute_id \in {1, 9} : get_attribute_values(attribute_id)

SpecValues == InitValues /\ [][NextValues]_vars

-----------------------------------------------------------------------------
(* Two requests in flight.  A handler first looks its unique key up (the      *)
(* query before the insert), later constructs the row, adds it and commits;   *)
(* the other request may run between the two.  The commit checks the table's  *)
(* unique constraint.                                                         *)

Request(op, path, body) == [op |-> op, path |-> path, body |-> body]

\* two admins send the same request: a key that is not in the seeded catalogue
RaceRequests ==
    { Request("create_attribute_definition", 0, [code |-> "fit", type |-> "text"]),
      Request("create_attribute_value", 0, [attribute_id |-> color_attr, value |-> "teal"]),
      Request("assign_attribute_to_category", 1, Binding(1, color_attr, FALSE, TRUE)),
      Request("create_product_variant", 1,
              [ product_id |-> 1, sku |-> "NIKE-TSHIRT-001-RED-S", price |-> None,
                compare_price |-> None, stock_quantity |-> 0, is_active |-> TRUE ]) }

\* the rows that hold the unique key of the request
KeyRows(request) ==
    CASE request.op = "create_attribute_definition" ->
            { i \in 1 .. Len(attribute_definitions) :
                attribute_definitions[i].code = request.body.code }
      [] request.op = "create_attribute_value" ->
            { i \in 1 .. Len(attribute_values) :
                /\ attribute_values[i].attribute_id = request.body.attribute_id
                /\ attribute_values[i].value = request.body.value }
      [] request.op = "assign_attribute_to_category" ->
            { i \in 1 .. Len(category_attributes) :
                /\ category_attributes[i].category_id = request.path
                /\ category_attributes[i].attribute_id = request.body.attribute_id }
      [] request.op = "create_product_variant" ->
            { i \in 1 .. Len(variants) : variants[i].sku = request.body.sku }

\* what the handler answers before it looks the key up, if it answers at all
NotFound(request) ==
    CASE request.op = "create_attribute_value" ->
            IF request.body.attribute_id \in 1 .. Len(attribute_definitions)
            THEN NoResponse ELSE Resp(404, "Attribute definition not found")
      [] request.op = "create_product_variant" ->
            IF request.path \in 1 .. Len(products)
            THEN NoResponse ELSE Resp(404, "Product not found")
      [] OTHER -> NoResponse

\* Model(**schema.dict()) of the handler
Constructs(request) ==
    CASE request.op = "create_attribute_definition" ->
            PyConstruct(AttributeDefinition_attributes, {},
                        AttributeDefinitionCreate_fields)
      [] request.op = "create_attribute_value" ->
            PyConstruct(AttributeValue_attributes, {}, AttributeValueCreate_fields)
      [] request.op = "assign_attribute_to_category" ->
            PyConstruct(CategoryAttribute_attributes, {"category_id"},
                        CategoryAttributeCreate_fields)
      [] request.op = "create_product_variant" ->
            PyConstruct(ProductVariant_attributes, {"product_id"},
                        ProductVariantCreate_fields)

\* the table of the request, with its row when the row is written
Written(request, op, table, written) ==
    IF written /\ request.op = op THEN Append(table, request.body) ELSE table

\* the handler up to its uniqueness query
writer_query(w) ==
    /\ writers[w].pc = "start"
    /\ writers' =
          IF NotFound(writers[w].request) # NoResponse
          THEN [writers EXCEPT ![w].pc = "done",
                               ![w].result = NotFound(writers[w].request)]
          ELSE [writers EXCEPT ![w].pc = "queried",
                               ![w].found = KeyRows(writers[w].request) # {}]
    /\ UNCHANGED <<categories, attribute_definitions, attribute_values,
                   category_attributes, products, variants, view, response, scenario,
                   product_attributes, shop>>

\* the rest of the handler: raise on a key that was found, else construct the
\* row, db.add, db.commit
writer_commit(w) ==
    LET request == writers[w].request
        result ==
            IF writers[w].found THEN Resp(400, "already exists")
            ELSE IF Constructs(request) # "ok" THEN Resp(500, "TypeError")
            ELSE IF KeyRows(request) # {} THEN Resp(500, "IntegrityError")
            ELSE Resp(200, "created")
        written == result.status = 200
    IN  /\ writers[w].pc = "queried"
        /\ writers' = [writers EXCEPT ![w].pc = "done", ![w].result = result]
        /\ attribute_definitions' =
              Written(request, "create_attribute_definition", attribute_definitions,
                      written)
        /\ attribute_values' =
              Written(request, "create_attribute_value", attribute_values, written)
        /\ category_attributes' =
              Written(request, "assign_attribute_to_category", category_attributes,
                      written)
        /\ variants' = Written(request, "create_product_variant", variants, written)
        /\ UNCHANGED <<categories, products, view, response, scenario,
                       product_attributes, shop>>

Writers == 1 .. 2

InitRace ==
    /\ seed_database
    /\ view = NoView
    /\ response = NoResponse
    /\ scenario = 0
    /\ EmptyShop
    /\ \E request \in RaceRequests :
          writers = [w \in Writers |->
                        [ pc |-> "start", request |-> request, found |-> FALSE,
                          result |-> NoResponse ]]

NextRace == \E w \in Writers : writer_query(w) \/ writer_commit(w)

SpecRace == InitRace /\ [][NextRace]_vars

-----------------------------------------------------------------------------
(* The storefront: the cart of api/v1/cart.py, the product list of           *)
(* api/v1/products.py and the handlers that retire or delete a product.      *)
(* A row's id is its position in its table.                                  *)

MaxQuantity == 3      \* the quantity of one cart item the model lets in

\* a request without a bearer token
NoUser == [id |-> None, role |-> "anonymous"]
\* no X-Session-Id header, and the NULL of carts.session_id
NoSession == ""
\* what is left at the position of a row that was deleted
NoRow == [status |-> "no row"]
InStorage(table, id) == id \in 1 .. Len(table) /\ table[id] # NoRow

CartRow(user_id, session_id) == [user_id |-> user_id, session_id |-> session_id]
CartItemRow(cart_id, product_id, variant_id, quantity, price) ==
    [ cart_id |-> cart_id, product_id |-> product_id, variant_id |-> variant_id,
      quantity |-> quantity, price |-> price ]
OrderItemRow(product_id, variant_id) ==
    [product_id |-> product_id, variant_id |-> variant_id]

\* the carts the query of get_or_create_cart matches
CartsOf(user, session_id) ==
    { i \in 1 .. Len(carts) :
        IF user # NoUser THEN carts[i].user_id = user.id
        ELSE carts[i].session_id = session_id }

\* get_or_create_cart returns cart (0 when it raises): .first() of the query,
\* or a cart that is added and committed when the query finds none
get_or_create_cart(user, session_id, cart) ==
    IF user = NoUser /\ session_id = NoSession
    THEN cart = 0 /\ carts' = carts
    ELSE IF CartsOf(user, session_id) # {}
    THEN cart \in CartsOf(user, session_id) /\ carts' = carts
    ELSE /\ cart = Len(carts) + 1
         /\ carts' = Append(carts,
                            IF user # NoUser THEN CartRow(user.id, NoSession)
                            ELSE CartRow(None, session_id))

\* the variant add_to_cart finds: None when the request names none, 0 when the
\* one it names is not an active variant of the product
RequestedVariant(item_in) ==
    IF ~Truthy(item_in.variant_id) THEN None
    ELSE IF /\ InStorage(variants, item_in.variant_id)
            /\ variants[item_in.variant_id].product_id = item_in.product_id
            /\ variants[item_in.variant_id].is_active
    THEN item_in.variant_id
    ELSE 0

\* stock = variant.stock_quantity if variant else product.stock_quantity
StockFor(product_id, variant) ==
    IF variant # None THEN variants[variant].stock_quantity
    ELSE products[product_id].stock_quantity

\* variant.effective_price if variant else product.price
PriceFor(product_id, variant) ==
    IF variant # None THEN ProductVariant_effective_price(variants[variant])
    ELSE products[product_id].price

\* the rows the existing_item query of add_to_cart matches
ExistingItems(cart, item_in) ==
    { i \in 1 .. Len(cart_items) :
        /\ cart_items[i].cart_id = cart
        /\ cart_items[i].product_id = item_in.product_id
        /\ cart_items[i].variant_id = item_in.variant_id }

\* what add_to_cart answers once it has its cart
add_to_cart_response(item_in) ==
    IF ~( /\ InStorage(products, item_in.product_id)
          /\ products[item_in.product_id].status = "active" )
    THEN Resp(404, "Product not found")
    ELSE IF RequestedVariant(item_in) = 0
    THEN Resp(404, "Product variant not found")
    ELSE IF /\ products[item_in.product_id].track_inventory
            /\ StockFor(item_in.product_id, RequestedVariant(item_in))
                 < item_in.quantity
    THEN Resp(400, "Not enough stock")
    ELSE Resp(201, "created")

\* everything but the tables of the cart, the response and the list
catalogue ==
    <<categories, attribute_definitions, attribute_values, category_attributes,
      products, variants, view, scenario, product_attributes, writers, order_items>>

\* oauth2_scheme of get_current_user: a request without a token is refused
\* before the handler runs
add_to_cart(current_user, x_session_id, item_in) ==
    /\ item_in.quantity <= MaxQuantity
    /\ IF current_user = NoUser
       THEN /\ response' = Resp(401, "Not authenticated")
            /\ UNCHANGED <<carts, cart_items>>
       ELSE \E cart \in 0 .. Len(carts) + 1 :
            /\ get_or_create_cart(current_user, x_session_id, cart)
            /\ response' = add_to_cart_response(item_in)
            /\ IF add_to_cart_response(item_in).status # 201
               THEN cart_items' = cart_items
               ELSE IF ExistingItems(cart, item_in) # {}
               THEN \E i \in ExistingItems(cart, item_in) :
                       /\ cart_items[i].quantity + item_in.quantity <= MaxQuantity
                       /\ cart_items' =
                             [cart_items EXCEPT
                                ![i].quantity = @ + item_in.quantity,
                                ![i].price = PriceFor(item_in.product_id,
                                                      RequestedVariant(item_in))]
               ELSE cart_items' =
                       Append(cart_items,
                              CartItemRow(cart, item_in.product_id,
                                          item_in.variant_id, item_in.quantity,
                                          PriceFor(item_in.product_id,
                                                   RequestedVariant(item_in))))
    /\ listing' = NoListing
    /\ UNCHANGED catalogue

\* what update_cart_item answers once it has its cart
update_cart_item_response(cart, item_id, item_in) ==
    IF ~(InStorage(cart_items, item_id) /\ cart_items[item_id].cart_id = cart)
    THEN Resp(404, "Cart item not found")
    ELSE IF /\ products[cart_items[item_id].product_id].track_inventory
            /\ StockFor(cart_items[item_id].product_id,
                        cart_items[item_id].variant_id) < item_in.quantity
    THEN Resp(400, "Not enough stock")
    ELSE Resp(200, "updated")

update_cart_item(current_user, x_session_id, item_id, item_in) ==
    /\ item_in.quantity <= MaxQuantity
    /\ IF current_user = NoUser
       THEN /\ response' = Resp(401, "Not authenticated")
            /\ UNCHANGED <<carts, cart_items>>
       ELSE \E cart \in 0 .. Len(carts) + 1 :
            /\ get_or_create_cart(current_user, x_session_id, cart)
            /\ response' = update_cart_item_response(cart, item_id, item_in)
            /\ cart_items' =
                  IF update_cart_item_response(cart, item_id, item_in).status = 200
                  THEN [cart_items EXCEPT ![item_id].quantity = item_in.quantity]
                  ELSE cart_items
    /\ listing' = NoListing
    /\ UNCHANGED catalogue

-----------------------------------------------------------------------------
(* api/v1/products.py: get_products, delete_product *)

\* the rows of the query, newest first (sort_by = created_desc, the default)
RECURSIVE NewestFirst(_)
NewestFirst(ids) ==
    IF ids = {} THEN <<>>
    ELSE LET newest == CHOOSE i \in ids : \A j \in ids : j <= i
         IN  <<newest>> \o NewestFirst(ids \ {newest})

\* the query of get_products and its in_stock filter; in_stock is the text of
\* the query parameter, "" when the request has none; no other filter is set
get_products_query(in_stock) ==
    { i \in 1 .. Len(products) :
        /\ InStorage(products, i)
        /\ products[i].status = "active"
        /\ products[i].visibility = "published"
        /\ in_stock = "true" => products[i].stock_quantity > 0
        /\ in_stock = "false" => products[i].stock_quantity = 0 }

get_products(in_stock) ==
    /\ response' = Resp(200, "ok")
    /\ listing' = [ in_stock |-> in_stock,
                    products |-> NewestFirst(get_products_query(in_stock)),
                    total |-> Cardinality(get_products_query(in_stock)) ]
    /\ UNCHANGED <<carts, cart_items>>
    /\ UNCHANGED catalogue

\* mutation of delete_product: the row is deleted
delete_product_HardDelete(current_user, product_id) ==
    /\ response' = Resp(204, "")
    /\ InStorage(products, product_id)
    /\ products' = [products EXCEPT ![product_id] = NoRow]
    /\ listing' = NoListing
    /\ UNCHANGED <<categories, attribute_definitions, attribute_values,
                   category_attributes, variants, view, scenario,
                   product_attributes, writers, order_items, carts, cart_items>>

delete_product(current_user, product_id) ==
    LET resp ==
            IF ~IsSellerUser(current_user) THEN Resp(403, "Seller account required")
            ELSE IF ~InStorage(products, product_id)
            THEN Resp(404, "Product not found")
            ELSE IF current_user.role # "admin"
                    /\ ~OwnsStore(current_user, products[product_id].store_id)
            THEN Resp(403, "Not enough permissions")
            ELSE Resp(204, "")
    IN  /\ response' = resp
        /\ products' =
              IF resp.status = 204
              THEN [products EXCEPT ![product_id].status = "archived"]
              ELSE products
        /\ listing' = NoListing
        /\ UNCHANGED <<categories, attribute_definitions, attribute_values,
                       category_attributes, variants, view, scenario,
                       product_attributes, writers, order_items, carts, cart_items>>

-----------------------------------------------------------------------------
(* api/products.py: delete_product; api/v0/admin.py: admin_delete_user *)

\* the members of models/user.py: UserRole
UserRole == {"customer", "seller", "admin", "support"}

\* require_business_or_admin builds [UserRole.BUSINESS, UserRole.ADMIN] first
require_business_or_admin(current_user) ==
    IF ~({"business", "admin"} \subseteq UserRole) THEN Resp(500, "AttributeError")
    ELSE IF current_user.role \notin {"business", "admin"}
    THEN Resp(403, "Access denied. Business account or admin required.")
    ELSE NoResponse

require_admin_role(current_user) ==
    IF ~("admin" \in UserRole) THEN Resp(500, "AttributeError")
    ELSE IF current_user.role # "admin"
    THEN Resp(403, "Access denied. Admin role required.")
    ELSE NoResponse

\* a row of a table without delete cascade holds the product: cart_items and
\* order_items (product_id NOT NULL) and product_attributes
ProductReferenced(product_id) ==
    \/ \E i \in 1 .. Len(order_items) : order_items[i].product_id = product_id
    \/ \E i \in 1 .. Len(cart_items) : cart_items[i].product_id = product_id
    \/ \E i \in 1 .. Len(product_attributes) :
          product_attributes[i].product_id = product_id

\* db.delete(product); db.commit(): the variants go with the product (cascade)
api_products_delete_product(current_user, product_id) ==
    LET resp ==
            IF require_business_or_admin(current_user) # NoResponse
            THEN require_business_or_admin(current_user)
            ELSE IF ~InStorage(products, product_id)
            THEN Resp(404, "Product not found")
            ELSE IF current_user.role # "admin" /\ "seller_id" \notin Product_attributes
            THEN Resp(500, "AttributeError")
            ELSE IF ProductReferenced(product_id) THEN Resp(500, "IntegrityError")
            ELSE Resp(200, "Product permanently deleted from database")
    IN  /\ response' = resp
        /\ products' =
              IF resp.status = 200 THEN [products EXCEPT ![product_id] = NoRow]
              ELSE products
        /\ variants' =
              IF resp.status = 200
              THEN [ i \in 1 .. Len(variants) |->
                        IF variants[i].product_id = product_id THEN NoRow
                        ELSE variants[i] ]
              ELSE variants
        /\ listing' = NoListing
        /\ UNCHANGED <<categories, attribute_definitions, attribute_values,
                       category_attributes, view, scenario, product_attributes,
                       writers, order_items, carts, cart_items>>

\* db.query(Product).filter(Product.seller_id == user.id): Product has no
\* seller_id, so the handler raises before it deletes anything
admin_delete_user(admin_user, user_id) ==
    LET resp ==
            IF require_admin_role(admin_user) # NoResponse
            THEN require_admin_role(admin_user)
            ELSE IF ~(\E user \in Users : user.id = user_id)
            THEN Resp(404, "User not found")
            ELSE IF user_id = admin_user.id
            THEN Resp(400, "Cannot delete your own account")
            ELSE IF "seller_id" \notin Product_attributes
            THEN Resp(500, "AttributeError")
            ELSE Resp(200, "User permanently deleted by admin")
    IN  /\ response' = resp
        /\ products' =
              IF resp.status = 200
              THEN [ i \in 1 .. Len(products) |->
                        IF products[i].seller_id = user_id THEN NoRow
                        ELSE products[i] ]
              ELSE products
        /\ listing' = NoListing
        /\ UNCHANGED <<categories, attribute_definitions, attribute_values,
                       category_attributes, variants, view, scenario,
                       product_attributes, writers, order_items, carts, cart_items>>

-----------------------------------------------------------------------------
(* The storefront over one product *)

ShopStocks == {0, 2}
Visibilities == {"published", "hidden"}

\* a product row with its visibility column
ShopProduct(track, stock, backorder, visibility) ==
    [visibility |-> visibility]
        @@ ProductRow(1, 150, None, track, stock, DefaultLowStockThreshold, backorder)

ShopProducts ==
    { ShopProduct(t, s, b, v) :
        t \in BOOLEAN, s \in ShopStocks, b \in BOOLEAN, v \in Visibilities }

\* the product has no variant, one active variant, or one inactive variant
ShopVariants ==
    { <<>>, << VariantRow(1, None, None, 2, FALSE) >> }
        \cup { << VariantRow(1, None, None, s, TRUE) >> : s \in ShopStocks }

\* no handler of the repository writes order_items: its rows are those the
\* database holds when the handlers run, here none or one for the product
ShopOrderItems == { <<>>, << OrderItemRow(1, None) >> }

CartAddInputs ==
    { [product_id |-> p, variant_id |-> v, quantity |-> q] :
        p \in {1, 9}, v \in {None, 1}, q \in 1 .. 2 }
CartUpdateInputs == { [quantity |-> q] : q \in {1, MaxQuantity} }
InStockParams == {"", "true", "false"}
CartCallers == {Customer, NoUser}

InitCart ==
    /\ categories = SeedCategories
    /\ attribute_definitions = SeedAttributes
    /\ attribute_values = SeedValues
    /\ category_attributes = SeedBindings
    /\ products \in { <<p>> : p \in ShopProducts }
    /\ variants \in ShopVariants
    /\ product_attributes = << ProductAttributeRow(1, None, material_attr, 5) >>
    /\ view = NoView
    /\ response = NoResponse
    /\ scenario = 0
    /\ writers = NoWriters
    /\ carts = <<>>
    /\ cart_items = <<>>
    /\ order_items \in ShopOrderItems
    /\ listing = NoListing

NextCart ==
    \/ \E current_user \in CartCallers :
          \/ \E item_in \in CartAddInputs :
                add_to_cart(current_user, NoSession, item_in)
          \/ \E item_id \in 1 .. 2, item_in \in CartUpdateInputs :
                update_cart_item(current_user, NoSession, item_id, item_in)
    \/ \E in_stock \in InStockParams : get_products(in_stock)
    \/ \E current_user \in {Seller, Customer}, product_id \in {1, 9} :
          delete_product(current_user, product_id)
    \/ api_products_delete_product(Admin, 1)
    \/ admin_delete_user(Admin, Seller.id)

SpecCart == InitCart /\ [][NextCart]_vars

-----------------------------------------------------------------------------
(* Two add_to_cart requests of one customer in flight, each in its own       *)
(* session (READ COMMITTED): get_or_create_cart queries, then adds and        *)
(* commits a cart; add_to_cart queries the product, the stock and the         *)
(* existing item, then commits its update or its insert.                      *)

\* UniqueConstraint('cart_id', 'product_id', 'variant_id'): the database holds
\* two NULLs to be distinct, so a row without variant never collides
unique_cart_item(row) ==
    ~\E i \in 1 .. Len(cart_items) :
        /\ cart_items[i].cart_id = row.cart_id
        /\ cart_items[i].product_id = row.product_id
        /\ row.variant_id # None
        /\ cart_items[i].variant_id = row.variant_id

\* cart = db.query(Cart).filter(Cart.user_id == user.id).first()
get_or_create_cart_query(w) ==
    /\ writers[w].pc = "start"
    /\ IF CartsOf(writers[w].user, NoSession) # {}
       THEN \E cart \in CartsOf(writers[w].user, NoSession) :
               writers' = [writers EXCEPT ![w].pc = "cart", ![w].cart = cart]
       ELSE writers' = [writers EXCEPT ![w].pc = "no cart"]
    /\ UNCHANGED <<carts, cart_items, response, listing>>
    /\ UNCHANGED <<categories, attribute_definitions, attribute_values,
                   category_attributes, products, variants, view, scenario,
                   product_attributes, order_items>>

\* cart = Cart(user_id=user.id); db.add(cart); db.commit()
get_or_create_cart_commit(w) ==
    /\ writers[w].pc = "no cart"
    /\ carts' = Append(carts, CartRow(writers[w].user.id, NoSession))
    /\ writers' = [writers EXCEPT ![w].pc = "cart", ![w].cart = Len(carts) + 1]
    /\ UNCHANGED <<cart_items, response, listing>>
    /\ UNCHANGED <<categories, attribute_definitions, attribute_values,
                   category_attributes, products, variants, view, scenario,
                   product_attributes, order_items>>

\* the checks of add_to_cart and its existing_item query; the item that is
\* found is loaded with the quantity it has now
add_to_cart_query(w) ==
    /\ writers[w].pc = "cart"
    /\ IF add_to_cart_response(writers[w].item_in).status # 201
       THEN writers' = [writers EXCEPT
                          ![w].pc = "done",
                          ![w].result = add_to_cart_response(writers[w].item_in)]
       ELSE IF ExistingItems(writers[w].cart, writers[w].item_in) # {}
       THEN \E i \in ExistingItems(writers[w].cart, writers[w].item_in) :
               writers' = [writers EXCEPT ![w].pc = "update", ![w].existing = i,
                                          ![w].quantity = cart_items[i].quantity]
       ELSE writers' = [writers EXCEPT ![w].pc = "insert"]
    /\ UNCHANGED <<carts, cart_items, response, listing>>
    /\ UNCHANGED <<categories, attribute_definitions, attribute_values,
                   category_attributes, products, variants, view, scenario,
                   product_attributes, order_items>>

\* existing_item.quantity += item_in.quantity; db.commit(), or
\* db.add(CartItem(...)); db.commit()
add_to_cart_commit(w) ==
    LET item_in == writers[w].item_in
        row == CartItemRow(writers[w].cart, item_in.product_id, item_in.variant_id,
                           item_in.quantity,
                           PriceFor(item_in.product_id, RequestedVariant(item_in)))
        result ==
            IF writers[w].pc = "insert" /\ ~unique_cart_item(row)
            THEN Resp(500, "IntegrityError")
            ELSE Resp(201, "created")
    IN  /\ writers[w].pc \in {"update", "insert"}
        /\ writers' = [writers EXCEPT ![w].pc = "done", ![w].result = result]
        /\ cart_items' =
              IF result.status # 201 THEN cart_items
              ELSE IF writers[w].pc = "update"
              THEN [cart_items EXCEPT
                      ![writers[w].existing].quantity =
                          writers[w].quantity + item_in.quantity,
                      ![writers[w].existing].price = row.price]
              ELSE Append(cart_items, row)
        /\ UNCHANGED <<carts, response, listing>>
        /\ UNCHANGED <<categories, attribute_definitions, attribute_values,
                       category_attributes, products, variants, view, scenario,
                       product_attributes, order_items>>

\* the customer's cart when the two requests arrive: none, an empty one, or one
\* that holds one unit of what is added
RaceCarts ==
    { [carts |-> <<>>, cart_items |-> <<>>],
      [carts |-> << CartRow(Customer.id, NoSession) >>, cart_items |-> <<>>] }
        \cup { [ carts |-> << CartRow(Customer.id, NoSession) >>,
                 cart_items |-> << CartItemRow(1, 1, v, 1, 150) >> ] :
               v \in {None, 1} }

RaceItems ==
    { [product_id |-> 1, variant_id |-> v, quantity |-> q] :
        v \in {None, 1}, q \in 1 .. 2 }

\* the quantity the cart holds of what is added, when the requests arrive
InCart(before, item_in) ==
    IF \E i \in 1 .. Len(before.cart_items) :
          before.cart_items[i].variant_id = item_in.variant_id
    THEN 1 ELSE 0

InitCartRace ==
    /\ categories = SeedCategories
    /\ attribute_definitions = SeedAttributes
    /\ attribute_values = SeedValues
    /\ category_attributes = SeedBindings
    /\ products = << ShopProduct(TRUE, MaxStock, FALSE, "published") >>
    /\ variants = << VariantRow(1, None, None, MaxStock, TRUE) >>
    /\ product_attributes = << ProductAttributeRow(1, None, material_attr, 5) >>
    /\ view = NoView
    /\ response = NoResponse
    /\ scenario = 0
    /\ order_items = <<>>
    /\ listing = NoListing
    /\ \E before \in RaceCarts, item_in \in RaceItems :
          /\ carts = before.carts
          /\ cart_items = before.cart_items
          /\ writers = [w \in Writers |->
                          [ pc |-> "start", user |-> Customer, item_in |-> item_in,
                            cart |-> 0, existing |-> 0, quantity |-> 0,
                            before |-> InCart(before, item_in),
                            result |-> NoResponse ]]

NextCartRace ==
    \E w \in Writers :
        \/ get_or_create_cart_query(w)
        \/ get_or_create_cart_commit(w)
        \/ add_to_cart_query(w)
        \/ add_to_cart_commit(w)

SpecCartRace == InitCartRace /\ [][NextCartRace]_vars

-----------------------------------------------------------------------------
(* The category tree: PUT /categories/{id} and the walks over parent and   *)
(* children that the Category model offers                                 *)

\* what a walk yields when it never comes back
Diverges == 0 - 2

\* PUT /categories/{category_id}: every field the request sets is copied
\* onto the row with setattr, parent_id included, and committed; the only
\* check on parent_id is the foreign key of the column
update_category(current_user, category_id, category_in) ==
    LET resp ==
            IF ~IsAdminUser(current_user) THEN Resp(403, "Not enough permissions")
            ELSE IF ~(category_id \in 1 .. Len(categories))
            THEN Resp(404, "Category not found")
            ELSE IF ~ForeignKey(categories, category_in.parent_id)
            THEN Resp(500, "IntegrityError")
            ELSE Resp(200, "updated")
    IN  /\ response' = resp
        /\ categories' = IF resp.status = 200
                         THEN [categories EXCEPT ![category_id] = category_in @@ @]
                         ELSE categories
        /\ UNCHANGED <<attribute_definitions, attribute_values, category_attributes,
                       products, variants, view, scenario>>
        /\ UNCHANGED <<product_attributes, writers, shop>>

\* Category.level: level = 0; current = self.parent;
\* while current: level += 1; current = current.parent.  A walk that has
\* taken more steps than there are rows has come back to a row it left,
\* and goes round for ever
RECURSIVE Category_level_from(_, _)
Category_level_from(current, level) ==
    IF current = None THEN level
    ELSE IF level >= Len(categories) THEN Diverges
    ELSE Category_level_from(categories[current].parent_id, level + 1)
Category_level(id) == Category_level_from(categories[id].parent_id, 0)

\* get_breadcrumbs: the same walk, starting at the category itself and
\* collecting the ids from the root down
RECURSIVE Category_get_breadcrumbs_from(_, _)
Category_get_breadcrumbs_from(current, breadcrumbs) ==
    IF current = None THEN breadcrumbs
    ELSE IF Len(breadcrumbs) >= Len(categories) THEN << Diverges >>
    ELSE Category_get_breadcrumbs_from(categories[current].parent_id,
                                       << current >> \o breadcrumbs)
Category_get_breadcrumbs(id) == Category_get_breadcrumbs_from(id, << >>)

\* Category.children: the rows whose parent_id is the category
Category_children(id) ==
    { c \in 1 .. Len(categories) : categories[c].parent_id = id }

\* get_all_children: each child followed by all of its own, recursively;
\* a descent deeper than the number of rows is inside a cycle
RECURSIVE Category_get_all_children_at(_, _)
Category_get_all_children_at(id, depth) ==
    IF depth >= Len(categories) THEN { Diverges }
    ELSE UNION { {child} \cup Category_get_all_children_at(child, depth + 1) :
                 child \in Category_children(id) }
Category_get_all_children(id) == Category_get_all_children_at(id, 0)

CategoryIds == {1, MensClothing, 9}
ParentIds == {None, 1, Clothing, MensClothing, 9}
CategoryUpdateInputs == { [parent_id |-> par] : par \in ParentIds }
KidsIn == [slug |-> "kids", parent_id |-> MensClothing]

InitCategories == InitSeeded
NextCategories ==
    \/ create_category(Admin, KidsIn)
    \/ \E current_user \in {Admin, Customer}, category_id \in CategoryIds,
          category_in \in CategoryUpdateInputs :
          update_category(current_user, category_id, category_in)
SpecCategories == InitCategories /\ [][NextCategories]_vars

-----------------------------------------------------------------------------
(* What the claims are stated over *)

Resolved == view # NoView
\* the product the view was resolved for
P == products[view.id]
\* positions (in the variants table) of the product's variants, all and active
VariantsOf(pid) == { i \in 1 .. Len(variants) : variants[i].product_id = pid }
ActiveOf(pid) == { i \in VariantsOf(pid) : variants[i].is_active }
\* effectivePrice(v): v.price when it is not null, the product's price otherwise
EffPrice(i) ==
    IF variants[i].price # None THEN variants[i].price
    ELSE products[variants[i].product_id].price
EffComparePrice(i) ==
    IF variants[i].compare_price # None THEN variants[i].compare_price
    ELSE products[variants[i].product_id].compare_price
RECURSIVE StockSum(_)
StockSum(S) ==
    IF S = {} THEN 0
    ELSE LET i == CHOOSE j \in S : TRUE
         IN  variants[i].stock_quantity + StockSum(S \ {i})
\* the product-level rules, on the product's own columns
OwnInStock(p) == ~p.track_inventory \/ p.stock_quantity > 0 \/ p.allow_backorder
OwnLowStock(p) == p.track_inventory /\ p.stock_quantity <= p.low_stock_threshold
\* a product that tracks inventory, without backorder, with exactly two active
\* variants of stocks s1, s2 and low_stock_threshold th
TwoVariantCase(s1, s2, th) ==
    /\ Resolved
    /\ P.track_inventory /\ ~P.allow_backorder /\ P.low_stock_threshold = th
    /\ Len(variants) = 2
    /\ \A i \in 1 .. 2 : variants[i].product_id = P.id /\ variants[i].is_active
    /\ variants[1].stock_quantity = s1 /\ variants[2].stock_quantity = s2

(* C1: a product with at least one active variant has effective_price equal *)
(* to the minimum effective price of its active variants; with no variants, *)
(* or no active one, effective_price is the product's own price.            *)
C1_EffectivePrice ==
    Resolved =>
        IF ActiveOf(P.id) # {}
        THEN /\ \E i \in ActiveOf(P.id) : view.effective_price = EffPrice(i)
             /\ \A i \in ActiveOf(P.id) : view.effective_price <= EffPrice(i)
        ELSE view.effective_price = P.price

C1_Witness ==
    /\ Resolved
    /\ \E i, j \in ActiveOf(P.id) :
          /\ variants[i].price = None
          /\ variants[j].price # None /\ variants[j].price < P.price
    /\ view.effective_price < P.price

(* C2: a product that tracks inventory and has variants is in stock iff at  *)
(* least one active variant is in stock; inactive variants do not count.    *)
C2_InStockAnyActive ==
    Resolved /\ P.track_inventory /\ VariantsOf(P.id) # {} =>
        (view.is_in_stock <=>
            \E i \in ActiveOf(P.id) :
                variants[i].stock_quantity > 0 \/ P.allow_backorder)

C2_Witness ==
    /\ Resolved /\ P.track_inventory /\ ~P.allow_backorder
    /\ \E i \in VariantsOf(P.id) :
          ~variants[i].is_active /\ variants[i].stock_quantity > 0
    /\ \E i \in ActiveOf(P.id) : variants[i].stock_quantity = 0
    /\ ~view.is_in_stock

(* C3: a product that tracks inventory and has variants is low on stock     *)
(* exactly when every active variant has stock_quantity <= the product's    *)
(* low_stock_threshold; a product that does not track inventory never is.   *)
C3_LowStockAllActive ==
    Resolved =>
        /\ P.track_inventory /\ VariantsOf(P.id) # {} =>
              (view.is_low_stock <=>
                  \A i \in ActiveOf(P.id) :
                      variants[i].stock_quantity <= P.low_stock_threshold)
        /\ ~P.track_inventory => ~view.is_low_stock

C3_Witness ==
    /\ Resolved /\ P.track_inventory
    /\ \E i, j \in ActiveOf(P.id) :
          /\ variants[i].stock_quantity <= P.low_stock_threshold
          /\ variants[j].stock_quantity > P.low_stock_threshold
    /\ ~view.is_low_stock

(* C4 as stated: stocks [0, 5] with threshold 5 give isInStock and not      *)
(* isLowStock; stocks [3, 4] with threshold 5 give isInStock and isLowStock. *)
C4_StockLawAsStated ==
    /\ TwoVariantCase(0, 5, 5) => view.is_in_stock /\ ~view.is_low_stock
    /\ TwoVariantCase(3, 4, 5) => view.is_in_stock /\ view.is_low_stock

(* C4 amended: stocks [0, 5] with threshold 5 give isInStock and isLowStock *)
(* (5 is at the threshold, not above it); stocks [0, 6] give isInStock and  *)
(* not isLowStock; stocks [3, 4] give isInStock and isLowStock.             *)
C4_StockLaw ==
    /\ TwoVariantCase(0, 5, 5) => view.is_in_stock /\ view.is_low_stock
    /\ TwoVariantCase(0, 6, 5) => view.is_in_stock /\ ~view.is_low_stock
    /\ TwoVariantCase(3, 4, 5) => view.is_in_stock /\ view.is_low_stock

C4_Witness == TwoVariantCase(0, 5, 5) /\ view.is_in_stock /\ view.is_low_stock

(* C5: a variant, and a product without variants, is in stock whenever the  *)
(* product does not track inventory; otherwise exactly when its own         *)
(* stock_quantity > 0 or the product's allow_backorder is set.              *)
C5_InStockRule ==
    Resolved =>
        /\ \A k \in 1 .. Len(view.variants) :
              view.variants[k].is_in_stock <=>
                  \/ ~P.track_inventory
                  \/ Product_variants(P)[k].stock_quantity > 0
                  \/ P.allow_backorder
        /\ VariantsOf(P.id) = {} =>
              (view.is_in_stock <=>
                  ~P.track_inventory \/ P.stock_quantity > 0 \/ P.allow_backorder)

C5_Witness ==
    /\ Resolved /\ P.track_inventory /\ P.allow_backorder
    /\ \E k \in 1 .. Len(view.variants) :
          Product_variants(P)[k].stock_quantity = 0 /\ view.variants[k].is_in_stock

\* d is the discount of price p against compare price c
IsDiscount(p, c, d) ==
    IF c = None \/ c <= p THEN d = 0
    ELSE /\ d \in 0 .. 100
         \* d is the integer nearest to 100 * (c - p) / c
         /\ 2 * (100 * (c - p) - d * c) <= c
         /\ 2 * (d * c - 100 * (c - p)) <= c
         /\ c = 200 /\ p = 150 => d = 25

(* C6: discount_percentage is 0 when the compare price is null or not above *)
(* the price, else 100 * (compare - price) / compare rounded to the nearest *)
(* integer (25 for 200 and 150); a product applies it to its own price and  *)
(* compare_price, a variant to its effective price and compare price.       *)
C6_DiscountPercentage ==
    Resolved =>
        /\ IsDiscount(P.price, P.compare_price, view.discount_percentage)
        /\ \A i \in VariantsOf(P.id) :
              IsDiscount(EffPrice(i), EffComparePrice(i),
                         view.variants[i].discount_percentage)

C6_Witness ==
    /\ Resolved
    /\ P.price = 150 /\ P.compare_price = 200 /\ view.discount_percentage = 25
    /\ \E i \in VariantsOf(P.id) :
          /\ variants[i].price = 199 /\ variants[i].compare_price = None
          /\ view.variants[i].discount_percentage = 0

(* C7: price_range is null when the product has no active variant or all    *)
(* its active variants share one effective price; otherwise it is the       *)
(* minimum and maximum effective price of the active variants.              *)
C7_PriceRange ==
    Resolved =>
        IF \A i, j \in ActiveOf(P.id) : EffPrice(i) = EffPrice(j)
        THEN view.price_range = NoRange
        ELSE /\ view.price_range # NoRange
             /\ \E i \in ActiveOf(P.id) : view.price_range.min = EffPrice(i)
             /\ \E i \in ActiveOf(P.id) : view.price_range.max = EffPrice(i)
             /\ \A i \in ActiveOf(P.id) :
                   /\ view.price_range.min <= EffPrice(i)
                   /\ EffPrice(i) <= view.price_range.max

C7_Witness ==
    /\ Resolved
    /\ \E i, j \in ActiveOf(P.id) :
          variants[i].price = None /\ variants[j].price # None
    /\ view.price_range # NoRange
    /\ view.price_range.min < view.price_range.max

(* C8: total_stock is the sum of stock_quantity over the active variants    *)
(* when the product has variants, and the product's own stock_quantity when *)
(* it has none.                                                             *)
C8_TotalStock ==
    Resolved =>
        IF VariantsOf(P.id) # {}
        THEN view.total_stock = StockSum(ActiveOf(P.id))
        ELSE view.total_stock = P.stock_quantity

C8_Witness ==
    /\ Resolved
    /\ \E i \in ActiveOf(P.id) : variants[i].stock_quantity > 0
    /\ \E i \in VariantsOf(P.id) :
          ~variants[i].is_active /\ variants[i].stock_quantity > 0
    /\ P.stock_quantity > 0
    /\ view.total_stock # P.stock_quantity

(* C9 as stated: whenever a product has no active variant, also when it has *)
(* variants that are all inactive, effectivePrice, isInStock, isLowStock    *)
(* and totalStock are the values of the product's own columns.              *)
C9_FallbackAsStated ==
    Resolved /\ ActiveOf(P.id) = {} =>
        /\ view.effective_price = P.price
        /\ view.is_in_stock = OwnInStock(P)
        /\ view.is_low_stock = OwnLowStock(P)
        /\ view.total_stock = P.stock_quantity

(* C9 amended: a product with no variants at all resolves to its own       *)
(* columns; a product whose variants are all inactive keeps only its own   *)
(* price as effectivePrice, while totalStock is 0 and, when it tracks      *)
(* inventory, isInStock is false and isLowStock is true (without tracking, *)
(* isInStock is true and isLowStock false).                                *)
C9_Fallback ==
    Resolved /\ ActiveOf(P.id) = {} =>
        /\ view.effective_price = P.price
        /\ VariantsOf(P.id) = {} =>
              /\ view.is_in_stock = OwnInStock(P)
              /\ view.is_low_stock = OwnLowStock(P)
              /\ view.total_stock = P.stock_quantity
        /\ VariantsOf(P.id) # {} =>
              /\ view.total_stock = 0
              /\ view.is_in_stock = ~P.track_inventory
              /\ view.is_low_stock = P.track_inventory

C9_Witness ==
    /\ Resolved /\ P.track_inventory
    /\ VariantsOf(P.id) # {} /\ ActiveOf(P.id) = {}
    /\ P.stock_quantity > P.low_stock_threshold
    /\ ~view.is_in_stock /\ view.is_low_stock /\ view.total_stock = 0

\* the resolved view the end-to-end scenario expects
ScenarioViewExpected ==
    /\ Resolved
    /\ view.effective_price = 1000
    /\ view.price_range = [min |-> 1000, max |-> 1200]
    /\ view.is_in_stock
    /\ view.total_stock = 3

(* C10: once the calls of the end-to-end scenario have been made (category  *)
(* shirts, attribute color with values red and blue, the binding with       *)
(* is_variant, product P of price 1000, variants red (no price, stock 0)    *)
(* and blue (1200, stock 3), then the view of P), the view has              *)
(* effectivePrice 1000, priceRange {1000, 1200}, isInStock and totalStock 3.*)
C10_EndToEnd == ScenarioDone => ScenarioViewExpected

(* The Resolver itself yields that view on the scenario's rows when they   *)
(* are constructed directly (checked under SpecResolver).                  *)
ResolverOnScenarioRows ==
    Resolved /\ products = ScenarioProducts /\ variants = ScenarioVariants
        => ScenarioViewExpected


-----------------------------------------------------------------------------
(* The attribute graph: assignment, bindings, values *)

\* the bindings of an attribute to the category of a product
BindingsOf(product_id, attribute_id) ==
    { i \in 1 .. Len(category_attributes) :
        /\ category_attributes[i].category_id = products[product_id].category_id
        /\ category_attributes[i].attribute_id = attribute_id }

\* the scope of an assignment disagrees with the binding's is_variant
ScopeMismatch(product_id, variant_id, attribute_id) ==
    \E i \in BindingsOf(product_id, attribute_id) :
        category_attributes[i].is_variant = (variant_id = None)

\* the rows of a table of product attributes that hold one triple
RowsOf(table, product_id, variant_id, attribute_id) ==
    { i \in 1 .. Len(table) :
        /\ table[i].product_id = product_id
        /\ table[i].variant_id = variant_id
        /\ table[i].attribute_id = attribute_id }

\* C11: an assignment whose scope disagrees with the is_variant flag of the
\* attribute's binding to the product's category (variant-scoped with
\* is_variant = false, or product-scoped with is_variant = true) is rejected
\* and writes no ProductAttribute row.
C11_ScopeEnforced ==
    [][ \A variant_id \in AssignedVariants, attribute_id \in AssignedAttributes,
           attribute_value_id \in AssignedValues :
           ( /\ add_ProductAttribute(1, variant_id, attribute_id, attribute_value_id, NoText)
             /\ ScopeMismatch(1, variant_id, attribute_id) )
           => ( /\ response'.status # 200
                /\ product_attributes' = product_attributes ) ]_vars

\* C12: an assignment is an upsert: after it there is exactly one row for its
\* (product_id, variant_id, attribute_id), and that row holds the value just
\* assigned, whether the triple was assigned before (same or other value) or not.
C12_Upsert ==
    [][ \A variant_id \in AssignedVariants, attribute_id \in AssignedAttributes,
           attribute_value_id \in AssignedValues :
           add_ProductAttribute(1, variant_id, attribute_id, attribute_value_id, NoText)
           => LET rows == RowsOf(product_attributes', 1, variant_id, attribute_id)
              IN  /\ Cardinality(rows) = 1
                  /\ \A i \in rows :
                        product_attributes'[i].attribute_value_id = attribute_value_id
      ]_vars

\* C13: in every reachable state no two ProductAttribute rows share
\* (product_id, variant_id, attribute_id), rows with a null variant_id included.
C13_UniqueTriple ==
    \A i \in 1 .. Len(product_attributes) :
        Cardinality(RowsOf(product_attributes, product_attributes[i].product_id,
                           product_attributes[i].variant_id,
                           product_attributes[i].attribute_id)) = 1

\* C14: in every reachable state of the seeded catalogue every ProductAttribute
\* row references an attribute bound to the current category of its product.
C14_BoundToCategory ==
    \A i \in 1 .. Len(product_attributes) :
        BindingsOf(product_attributes[i].product_id,
                   product_attributes[i].attribute_id) # {}

DuplicateValue(value_in) ==
    \E i \in 1 .. Len(attribute_values) :
        /\ attribute_values[i].attribute_id = value_in.attribute_id
        /\ attribute_values[i].value = value_in.value

\* C15: for an existing attribute definition, inserting a value whose
\* (attribute_id, value) already exists fails with the duplicate-value conflict
\* and adds nothing; inserting another value code under the same attribute
\* succeeds and adds exactly that one row.
C15_DuplicateValue ==
    [][ \A value_in \in SeededValueInputs :
           ( /\ create_attribute_value(Admin, value_in)
             /\ value_in.attribute_id \in 1 .. Len(attribute_definitions) )
           => IF DuplicateValue(value_in)
              THEN /\ response' = Resp(400, "Value already exists for this attribute")
                   /\ attribute_values' = attribute_values
              ELSE /\ response'.status = 200
                   /\ Len(attribute_values') = Len(attribute_values) + 1
                   /\ SubSeq(attribute_values', 1, Len(attribute_values))
                        = attribute_values
                   /\ attribute_values'[Len(attribute_values')].attribute_id
                        = value_in.attribute_id
                   /\ attribute_values'[Len(attribute_values')].value = value_in.value
      ]_vars

\* a value was added under "color" and adding it once more was refused
C15_Witness ==
    /\ response = Resp(400, "Value already exists for this attribute")
    /\ \E i \in 1 .. Len(attribute_values) :
          /\ i > Len(SeedValues)
          /\ attribute_values[i] = [attribute_id |-> color_attr, value |-> "teal"]

Bound(category_id, attribute_id) ==
    \E i \in 1 .. Len(category_attributes) :
        /\ category_attributes[i].category_id = category_id
        /\ category_attributes[i].attribute_id = attribute_id

\* C16: binding an attribute to a category creates the CategoryAttribute of
\* exactly that pair when both exist and the pair is unbound; it fails, adding
\* nothing, when the pair is bound already or when the category or the
\* attribute definition does not exist.
C16_BindAttribute ==
    [][ \A attribute_in \in SeededBindingInputs :
           assign_attribute_to_category(Admin, attribute_in.category_id, attribute_in)
           => IF /\ attribute_in.category_id \in 1 .. Len(categories)
                 /\ attribute_in.attribute_id \in 1 .. Len(attribute_definitions)
                 /\ ~Bound(attribute_in.category_id, attribute_in.attribute_id)
              THEN /\ response'.status = 200
                   /\ category_attributes' = Append(category_attributes, attribute_in)
              ELSE /\ response'.status \in {400, 404}
                   /\ category_attributes' = category_attributes
      ]_vars

RegistryWrite ==
    \E current_user \in RegistryCallers :
        \/ \E attribute_in \in SeededAttributeInputs :
              create_attribute_definition(current_user, attribute_in)
        \/ \E value_in \in SeededValueInputs :
              create_attribute_value(current_user, value_in)
        \/ \E attribute_in \in SeededBindingInputs :
              assign_attribute_to_category(current_user, attribute_in.category_id,
                                           attribute_in)

\* C18: a failing create_attribute_definition, create_attribute_value or
\* assign_attribute_to_category leaves attribute_definitions, attribute_values
\* and category_attributes exactly as they were before the call.
C18_AllOrNothing ==
    [][ (RegistryWrite /\ response'.status # 200)
        => UNCHANGED <<attribute_definitions, attribute_values,
                       category_attributes>> ]_vars

\* a definition was added, and a later call was refused
C18_Witness ==
    /\ Len(attribute_definitions) > Len(SeedAttributes)
    /\ response.status \in {400, 404, 500}
    /\ response.detail \in { "Attribute with this code already exists",
                             "Attribute definition not found",
                             "Attribute already assigned to this category",
                             "TypeError" }

AttributeWrite ==
    \/ RegistryWrite
    \/ \E variant_id \in AssignedVariants, attribute_id \in AssignedAttributes,
          attribute_value_id \in AssignedValues :
          add_ProductAttribute(1, variant_id, attribute_id, attribute_value_id, NoText)

\* C19: an attribute write (a definition, a value, a binding, a product or
\* variant attribute) leaves the products and variants tables as they were, so
\* every product resolves to the same view before and after the write.
C19_PriceStockUntouched ==
    [][ AttributeWrite
        => /\ products' = products
           /\ variants' = variants
           /\ \A p \in 1 .. Len(products) :
                 ProductView(products[p])' = ProductView(products[p]) ]_vars

\* a variant of the seeded product got one more attribute, and a value was added
C19_Witness ==
    /\ Len(products) = 1
    /\ Len(attribute_values) > Len(SeedValues)
    /\ \E i \in 1 .. Len(product_attributes) :
          /\ i > Len(SeedProductAttributes)
          /\ product_attributes[i].variant_id = 1


Raced == \A w \in DOMAIN writers : writers[w].pc = "done"

\* C17: when two concurrent writers have inserted the same unique key
\* (attribute code, (attribute_id, value), (category_id, attribute_id), variant
\* SKU), exactly one of them has succeeded, the other has failed, and exactly
\* one row holds the key.
C17_OneWriterWins ==
    (writers # NoWriters /\ Raced)
    => /\ Cardinality({ w \in DOMAIN writers : writers[w].result.status = 200 }) = 1
       /\ Cardinality(KeyRows(writers[1].request)) = 1

\* the storage's constraint alone settles the race of the two requests whose
\* handler can construct its row: one value, one definition
RaceOnRegistry ==
    ( /\ writers # NoWriters
      /\ Raced
      /\ writers[1].request.op \in {"create_attribute_definition",
                                    "create_attribute_value"} )
    => /\ Cardinality({ w \in DOMAIN writers : writers[w].result.status = 200 }) = 1
       /\ Cardinality(KeyRows(writers[1].request)) = 1

-----------------------------------------------------------------------------
(* C30: for every product, total_stock > 0 implies is_in_stock: a product   *)
(* that reports sellable units (its own stock, or the summed stock of its   *)
(* active variants) is never reported out of stock.                         *)
C30_StockImpliesInStock ==
    Resolved => (view.total_stock > 0 => view.is_in_stock)

\* a tracked product without backorder whose units are all on one of two
\* active variants, the other being empty
C30_Witness ==
    /\ Resolved /\ P.track_inventory /\ ~P.allow_backorder
    /\ \E i, j \in ActiveOf(P.id) :
          variants[i].stock_quantity = 0 /\ variants[j].stock_quantity > 0
    /\ view.total_stock > 0 /\ view.is_in_stock

-----------------------------------------------------------------------------
(* The storefront claims *)

\* the request names an active product and no variant or an active variant of it
SellableRequest(item_in) ==
    /\ InStorage(products, item_in.product_id)
    /\ products[item_in.product_id].status = "active"
    /\ RequestedVariant(item_in) # 0

\* the Resolver's is_in_stock of what the request adds
RequestedInStock(item_in) ==
    IF item_in.variant_id = None
    THEN Product_is_in_stock(products[item_in.product_id])
    ELSE ProductVariant_is_in_stock(variants[item_in.variant_id])

\* C21: the cart's stock check agrees with the Resolver: for an active product
\* (or an active variant of it), add_to_cart with quantity 1 is rejected with
\* "Not enough stock" exactly when the Resolver's is_in_stock of that product
\* (or variant) is false.
C21_CartAgreesWithResolver ==
    [][ \A item_in \in CartAddInputs :
           ( /\ add_to_cart(Customer, NoSession, item_in)
             /\ item_in.quantity = 1
             /\ SellableRequest(item_in) )
           => ( response' = Resp(400, "Not enough stock")
                   <=> ~RequestedInStock(item_in) )
      ]_vars

\* the active, published products
Listed == { p \in 1 .. Len(products) :
              /\ InStorage(products, p)
              /\ products[p].status = "active"
              /\ products[p].visibility = "published" }

\* C22: the product list's in_stock filter agrees with the Resolver:
\* get_products with in_stock = true returns exactly the active, published
\* products whose is_in_stock is true, and with in_stock = false exactly
\* those whose is_in_stock is false.
C22_ListingAgreesWithResolver ==
    listing.in_stock \in {"true", "false"}
    => { listing.products[i] : i \in DOMAIN listing.products }
         = { p \in Listed :
               Product_is_in_stock(products[p]) <=> listing.in_stock = "true" }

C28_QuantityWithinStock ==
    \A i \in 1 .. Len(cart_items) :
        products[cart_items[i].product_id].track_inventory
        => cart_items[i].quantity
             <= StockFor(cart_items[i].product_id, cart_items[i].variant_id)

\* the quantities the requests that succeeded have added to a cart
RECURSIVE AddedTo(_, _)
AddedTo(cart, ws) ==
    IF ws = {} THEN 0
    ELSE LET w == CHOOSE x \in ws : TRUE
         IN  ( IF writers[w].cart = cart /\ writers[w].result.status = 201
               THEN writers[w].item_in.quantity ELSE 0 )
             + AddedTo(cart, ws \ {w})

\* the cart items of a cart that hold what the two requests add
ItemsOf(cart) == ExistingItems(cart, writers[1].item_in)

\* C27: after add_to_cart calls on one cart, the cart holds at most one
\* CartItem per (product_id, variant_id), variant_id null included, and that
\* item's quantity is the sum of the quantities added; also when two
\* add_to_cart calls for the same product and variant run concurrently.
C27_OneItemSummed ==
    (writers # NoWriters /\ Raced)
    => \A cart \in 1 .. Len(carts) :
          /\ Cardinality(ItemsOf(cart)) <= 1
          /\ \A i \in ItemsOf(cart) :
                cart_items[i].quantity
                  = (IF cart = 1 THEN writers[1].before ELSE 0)
                    + AddedTo(cart, DOMAIN writers)

\* one request after the other, a cart never holds two items of one product
\* and variant: the existing_item query finds the first
OneItemPerKey ==
    \A i, j \in 1 .. Len(cart_items) :
        ( /\ cart_items[i].cart_id = cart_items[j].cart_id
          /\ cart_items[i].product_id = cart_items[j].product_id
          /\ cart_items[i].variant_id = cart_items[j].variant_id )
        => i = j

\* C29: there is at most one cart per user and at most one cart per guest
\* session id, also when two requests of the same user (or session) that has
\* no cart yet run get_or_create_cart concurrently.
C29_OneCartPerOwner ==
    \A i, j \in 1 .. Len(carts) :
        ( \/ carts[i].user_id # None /\ carts[i].user_id = carts[j].user_id
          \/ carts[i].session_id # NoSession
             /\ carts[i].session_id = carts[j].session_id )
        => i = j

\* the attribute of a product attribute row takes its values from attribute_values
Enumerable(attribute_id) ==
    attribute_definitions[attribute_id].type \in EnumerableTypes

\* C24: every ProductAttribute row is a tagged union: exactly one of
\* attribute_value_id and custom_value is populated, attribute_value_id only
\* when the attribute's type is enumerable (select, multiselect, color, size)
\* and custom_value only when it is not (text, number, boolean); a write that
\* violates the tag is rejected, so no such row is ever stored.
C24_TaggedUnion ==
    \A i \in 1 .. Len(product_attributes) :
        LET row == product_attributes[i]
        IN  /\ (row.attribute_value_id # None) # (row.custom_value # NoText)
            /\ row.attribute_value_id # None => Enumerable(row.attribute_id)
            /\ row.custom_value # NoText => ~Enumerable(row.attribute_id)

\* the rows ordered by sort_order and, among equal sort_order, by insertion
\* (the ids are handed out in insertion order)
RECURSIVE BySortOrderThenInsertion(_)
BySortOrderThenInsertion(ids) ==
    IF ids = {} THEN <<>>
    ELSE LET first ==
                CHOOSE i \in ids :
                    \A j \in ids :
                        \/ attribute_values[i].sort_order
                             < attribute_values[j].sort_order
                        \/ /\ attribute_values[i].sort_order
                                = attribute_values[j].sort_order
                           /\ i <= j
         IN  <<first>> \o BySortOrderThenInsertion(ids \ {first})

\* C25: listing the values of an attribute returns exactly its values with
\* is_active = true, ordered by sort_order and, among values with equal
\* sort_order, by insertion order; the same result every time on an
\* unchanged store.
C25_ListValues ==
    [][ \A attribute_id \in {1, 9} :
           get_attribute_values(attribute_id)
           => listing'.values = BySortOrderThenInsertion(ActiveValues(attribute_id))
      ]_vars

\* the list holds the active values and no other, whatever their order
ListsActiveValues ==
    [][ \A attribute_id \in {1, 9} :
           get_attribute_values(attribute_id)
           => /\ { listing'.values[i] : i \in DOMAIN listing'.values }
                   = ActiveValues(attribute_id)
              /\ \A i, j \in DOMAIN listing'.values :
                    i < j => attribute_values[listing'.values[i]].sort_order
                               <= attribute_values[listing'.values[j]].sort_order
      ]_vars

\* C26: in every state reached through create_category and update_category,
\* the walks over the category tree return for every category: level and
\* get_breadcrumbs reach a root, and get_all_children reaches the leaves,
\* within as many steps as there are categories.
C26_TraversalReturns ==
    \A id \in 1 .. Len(categories) :
        /\ Category_level(id) # Diverges
        /\ Category_get_breadcrumbs(id) # << Diverges >>
        /\ Diverges \notin Category_get_all_children(id)

=============================================================================
